---------------------------- MODULE Spec2Model ----------------------------
(***************************************************************************)
(* Model of AsuntosPublicos: the gazette (Boletin Oficial) segmentation    *)
(* and field extraction of boletin_pdf.py, the keyword classifier and the  *)
(* account matching shared with example.py, and the feed stage of          *)
(* example.py / rss_reader.py.                                             *)
(*                                                                         *)
(* A text (a Python str) is a sequence of one-character strings.  The      *)
(* regular expressions of the source are kept as syntax trees and run by   *)
(* a backtracking matcher with the priorities of Python's re module.       *)
(***************************************************************************)
EXTENDS Integers, Sequences, FiniteSets, TLC

VARIABLES
    pc,                 \* position of the pipeline being run
    paginas,            \* procesar_pdf: the text of each page of the PDF
    i,                  \* procesar_pdf: index of the page being read
    n_linea,            \* procesar_pdf: index of the line being read in it
    documento_actual,   \* procesar_pdf: type of the open document, or None
    texto_documento,    \* procesar_pdf: lines buffered for the open document
    documentos,         \* metadata["documentos"]
    tipo_in,            \* _procesar_documento: argument tipo
    texto_in,           \* _procesar_documento: argument texto
    doc_out,            \* _procesar_documento: the record returned
    temas,              \* self.temas / main's temas: the topic store, in dict order
    cuentas,            \* self.cuentas: the account store, in dict order
    filas,              \* _guardar_resultados: documentos_data (the rows of df)
    reportes,           \* _generar_resumen_por_cuenta: docs_cuenta of each account
    feed_pc,            \* main: state of the future of each feed
    retry_count,        \* procesar_feed: retry_count of each call
    intentos,           \* procesar_feed: what the source did on each attempt made
    espera,             \* procesar_feed: seconds slept by each call
    resultado,          \* procesar_feed: the value each call returned
    all_news,           \* main: all_news, the news items (the objects themselves)
    n_noticia,          \* main: index in all_news of the item being classified
    noticias_por_tema,  \* main: per topic, references (indices) into all_news
    total_noticias_clasificadas, \* main: total_noticias_clasificadas
    feed_in,            \* get_feed_entries: what feedparser.parse does on the call
    limit_in,           \* get_feed_entries: argument limit
    entries_out,        \* get_feed_entries: the value returned
    hoy,                \* obtener_ultimo_boletin: datetime.now(), as (year, month, day)
    fecha_actual,       \* obtener_ultimo_boletin: fecha_actual
    pasos,              \* obtener_ultimo_boletin: turns of the weekend loop taken
    sondas,             \* obtener_ultimo_boletin: the requests.head calls made, with their answers
    loc_out,            \* obtener_ultimo_boletin: the pair returned
    archivos,           \* the files under temp_boletines, each with what a reader finds in it
    seccion_out,        \* descargar_primera_seccion[_selenium]: the outcome of the last call
    navegador,          \* descargar_primera_seccion_selenium: the call waiting for its download
    en_sumario,         \* _extraer_sumario: en_sumario
    n_pag,              \* _extraer_sumario: index of the page being read
    sumario,            \* _extraer_sumario: sumario
    probadas,           \* _extraer_sumario: the lines that reached the test for an entry, by position
    fallas,             \* _guardar_resultados: the writes that raise, as (write, account)
    bitacora,           \* _guardar_resultados: the writes attempted, in order, with their outcome
    origen_temas,       \* cargar_diccionario: what pd.read_excel does for Diccionario.xlsx
    origen_cuentas,     \* cargar_cuentas: what pd.read_excel does for Cuentas.xlsx
    process_button,     \* NewsAnalyzerGUI.process_button: its state flags
    status_label,       \* NewsAnalyzerGUI.status_label: its text
    log_text,           \* NewsAnalyzerGUI.log_text: the messages logged, in order
    hilos,              \* process_news: the worker threads started, each with its position and its local e
    after_queue         \* root.after: the callbacks scheduled and not yet run, in order

vars == <<pc, paginas, i, n_linea, documento_actual, texto_documento, documentos,
          tipo_in, texto_in, doc_out, temas, cuentas, filas, reportes,
          feed_pc, retry_count, intentos, espera, resultado, all_news,
          n_noticia, noticias_por_tema, total_noticias_clasificadas,
          feed_in, limit_in, entries_out,
          hoy, fecha_actual, pasos, sondas, loc_out, archivos, seccion_out, navegador,
          en_sumario, n_pag, sumario, probadas,
          fallas, bitacora,
          origen_temas, origen_cuentas,
          process_button, status_label, log_text, hilos, after_queue>>

(***************************************************************************)
(* Python values                                                           *)
(***************************************************************************)
None == [some |-> FALSE, v |-> <<>>]
Some(x) == [some |-> TRUE, v |-> x]

NL == "\n"

Max(a, b) == IF a >= b THEN a ELSE b
Min(a, b) == IF a <= b THEN a ELSE b

(***************************************************************************)
(* Characters.  A text is a sequence of characters.  A printing character  *)
(* up to U+00FF is written as itself (tab, line feed, form feed and        *)
(* carriage return as "\t", "\n", "\f", "\r"); any other character, and   *)
(* the grave accent, the no-break space and the soft hyphen, is written by *)
(* its code point, as in "U+000B", "U+00A0" and "U+0130".  The tables      *)
(* below are those of the Unicode database of the interpreter, in code     *)
(* point order.                                                            *)
(* MAYUS[k] and MINUS[k] are the two cases of one letter.                  *)
(***************************************************************************)
MAYUS == <<"A", "B", "C", "D", "E", "F", "G", "H", "I", "J", "K", "L", "M",
           "N", "O", "P", "Q", "R", "S", "T", "U", "V", "W", "X", "Y", "Z",
           "Á", "É", "Í", "Ó", "Ú", "Ñ">>
MINUS == <<"a", "b", "c", "d", "e", "f", "g", "h", "i", "j", "k", "l", "m",
           "n", "o", "p", "q", "r", "s", "t", "u", "v", "w", "x", "y", "z",
           "á", "é", "í", "ó", "ú", "ñ">>

Rango(s, a, b) == {s[k] : k \in a..b}
AZ == Rango(MAYUS, 1, 26)                     \* [A-Z]
az == Rango(MINUS, 1, 26)                     \* [a-z]
AZacento == Rango(MAYUS, 1, 32)               \* [A-ZÁÉÍÓÚÑ]
azacento == Rango(MINUS, 1, 32)               \* [a-záéíóúñ]

\* the decimal digits (category Nd): the ten digits 0..9 of each script
DIGITOS_ND ==
  <<
    "0", "1", "2", "3", "4", "5", "6", "7", "8", "9", "U+0660", "U+0661",
    "U+0662", "U+0663", "U+0664", "U+0665", "U+0666", "U+0667", "U+0668", "U+0669", "U+06F0", "U+06F1", "U+06F2", "U+06F3",
    "U+06F4", "U+06F5", "U+06F6", "U+06F7", "U+06F8", "U+06F9", "U+07C0", "U+07C1", "U+07C2", "U+07C3", "U+07C4", "U+07C5",
    "U+07C6", "U+07C7", "U+07C8", "U+07C9", "U+0966", "U+0967", "U+0968", "U+0969", "U+096A", "U+096B", "U+096C", "U+096D",
    "U+096E", "U+096F", "U+09E6", "U+09E7", "U+09E8", "U+09E9", "U+09EA", "U+09EB", "U+09EC", "U+09ED", "U+09EE", "U+09EF",
    "U+0A66", "U+0A67", "U+0A68", "U+0A69", "U+0A6A", "U+0A6B", "U+0A6C", "U+0A6D", "U+0A6E", "U+0A6F", "U+0AE6", "U+0AE7",
    "U+0AE8", "U+0AE9", "U+0AEA", "U+0AEB", "U+0AEC", "U+0AED", "U+0AEE", "U+0AEF", "U+0B66", "U+0B67", "U+0B68", "U+0B69",
    "U+0B6A", "U+0B6B", "U+0B6C", "U+0B6D", "U+0B6E", "U+0B6F", "U+0BE6", "U+0BE7", "U+0BE8", "U+0BE9", "U+0BEA", "U+0BEB",
    "U+0BEC", "U+0BED", "U+0BEE", "U+0BEF", "U+0C66", "U+0C67", "U+0C68", "U+0C69", "U+0C6A", "U+0C6B", "U+0C6C", "U+0C6D",
    "U+0C6E", "U+0C6F", "U+0CE6", "U+0CE7", "U+0CE8", "U+0CE9", "U+0CEA", "U+0CEB", "U+0CEC", "U+0CED", "U+0CEE", "U+0CEF",
    "U+0D66", "U+0D67", "U+0D68", "U+0D69", "U+0D6A", "U+0D6B", "U+0D6C", "U+0D6D", "U+0D6E", "U+0D6F", "U+0DE6", "U+0DE7",
    "U+0DE8", "U+0DE9", "U+0DEA", "U+0DEB", "U+0DEC", "U+0DED", "U+0DEE", "U+0DEF", "U+0E50", "U+0E51", "U+0E52", "U+0E53",
    "U+0E54", "U+0E55", "U+0E56", "U+0E57", "U+0E58", "U+0E59", "U+0ED0", "U+0ED1", "U+0ED2", "U+0ED3", "U+0ED4", "U+0ED5",
    "U+0ED6", "U+0ED7", "U+0ED8", "U+0ED9", "U+0F20", "U+0F21", "U+0F22", "U+0F23", "U+0F24", "U+0F25", "U+0F26", "U+0F27",
    "U+0F28", "U+0F29", "U+1040", "U+1041", "U+1042", "U+1043", "U+1044", "U+1045", "U+1046", "U+1047", "U+1048", "U+1049",
    "U+1090", "U+1091", "U+1092", "U+1093", "U+1094", "U+1095", "U+1096", "U+1097", "U+1098", "U+1099", "U+17E0", "U+17E1",
    "U+17E2", "U+17E3", "U+17E4", "U+17E5", "U+17E6", "U+17E7", "U+17E8", "U+17E9", "U+1810", "U+1811", "U+1812", "U+1813",
    "U+1814", "U+1815", "U+1816", "U+1817", "U+1818", "U+1819", "U+1946", "U+1947", "U+1948", "U+1949", "U+194A", "U+194B",
    "U+194C", "U+194D", "U+194E", "U+194F", "U+19D0", "U+19D1", "U+19D2", "U+19D3", "U+19D4", "U+19D5", "U+19D6", "U+19D7",
    "U+19D8", "U+19D9", "U+1A80", "U+1A81", "U+1A82", "U+1A83", "U+1A84", "U+1A85", "U+1A86", "U+1A87", "U+1A88", "U+1A89",
    "U+1A90", "U+1A91", "U+1A92", "U+1A93", "U+1A94", "U+1A95", "U+1A96", "U+1A97", "U+1A98", "U+1A99", "U+1B50", "U+1B51",
    "U+1B52", "U+1B53", "U+1B54", "U+1B55", "U+1B56", "U+1B57", "U+1B58", "U+1B59", "U+1BB0", "U+1BB1", "U+1BB2", "U+1BB3",
    "U+1BB4", "U+1BB5", "U+1BB6", "U+1BB7", "U+1BB8", "U+1BB9", "U+1C40", "U+1C41", "U+1C42", "U+1C43", "U+1C44", "U+1C45",
    "U+1C46", "U+1C47", "U+1C48", "U+1C49", "U+1C50", "U+1C51", "U+1C52", "U+1C53", "U+1C54", "U+1C55", "U+1C56", "U+1C57",
    "U+1C58", "U+1C59", "U+A620", "U+A621", "U+A622", "U+A623", "U+A624", "U+A625", "U+A626", "U+A627", "U+A628", "U+A629",
    "U+A8D0", "U+A8D1", "U+A8D2", "U+A8D3", "U+A8D4", "U+A8D5", "U+A8D6", "U+A8D7", "U+A8D8", "U+A8D9", "U+A900", "U+A901",
    "U+A902", "U+A903", "U+A904", "U+A905", "U+A906", "U+A907", "U+A908", "U+A909", "U+A9D0", "U+A9D1", "U+A9D2", "U+A9D3",
    "U+A9D4", "U+A9D5", "U+A9D6", "U+A9D7", "U+A9D8", "U+A9D9", "U+A9F0", "U+A9F1", "U+A9F2", "U+A9F3", "U+A9F4", "U+A9F5",
    "U+A9F6", "U+A9F7", "U+A9F8", "U+A9F9", "U+AA50", "U+AA51", "U+AA52", "U+AA53", "U+AA54", "U+AA55", "U+AA56", "U+AA57",
    "U+AA58", "U+AA59", "U+ABF0", "U+ABF1", "U+ABF2", "U+ABF3", "U+ABF4", "U+ABF5", "U+ABF6", "U+ABF7", "U+ABF8", "U+ABF9",
    "U+FF10", "U+FF11", "U+FF12", "U+FF13", "U+FF14", "U+FF15", "U+FF16", "U+FF17", "U+FF18", "U+FF19", "U+104A0", "U+104A1",
    "U+104A2", "U+104A3", "U+104A4", "U+104A5", "U+104A6", "U+104A7", "U+104A8", "U+104A9", "U+10D30", "U+10D31", "U+10D32", "U+10D33",
    "U+10D34", "U+10D35", "U+10D36", "U+10D37", "U+10D38", "U+10D39", "U+11066", "U+11067", "U+11068", "U+11069", "U+1106A", "U+1106B",
    "U+1106C", "U+1106D", "U+1106E", "U+1106F", "U+110F0", "U+110F1", "U+110F2", "U+110F3", "U+110F4", "U+110F5", "U+110F6", "U+110F7",
    "U+110F8", "U+110F9", "U+11136", "U+11137", "U+11138", "U+11139", "U+1113A", "U+1113B", "U+1113C", "U+1113D", "U+1113E", "U+1113F",
    "U+111D0", "U+111D1", "U+111D2", "U+111D3", "U+111D4", "U+111D5", "U+111D6", "U+111D7", "U+111D8", "U+111D9", "U+112F0", "U+112F1",
    "U+112F2", "U+112F3", "U+112F4", "U+112F5", "U+112F6", "U+112F7", "U+112F8", "U+112F9", "U+11450", "U+11451", "U+11452", "U+11453",
    "U+11454", "U+11455", "U+11456", "U+11457", "U+11458", "U+11459", "U+114D0", "U+114D1", "U+114D2", "U+114D3", "U+114D4", "U+114D5",
    "U+114D6", "U+114D7", "U+114D8", "U+114D9", "U+11650", "U+11651", "U+11652", "U+11653", "U+11654", "U+11655", "U+11656", "U+11657",
    "U+11658", "U+11659", "U+116C0", "U+116C1", "U+116C2", "U+116C3", "U+116C4", "U+116C5", "U+116C6", "U+116C7", "U+116C8", "U+116C9",
    "U+11730", "U+11731", "U+11732", "U+11733", "U+11734", "U+11735", "U+11736", "U+11737", "U+11738", "U+11739", "U+118E0", "U+118E1",
    "U+118E2", "U+118E3", "U+118E4", "U+118E5", "U+118E6", "U+118E7", "U+118E8", "U+118E9", "U+11950", "U+11951", "U+11952", "U+11953",
    "U+11954", "U+11955", "U+11956", "U+11957", "U+11958", "U+11959", "U+11C50", "U+11C51", "U+11C52", "U+11C53", "U+11C54", "U+11C55",
    "U+11C56", "U+11C57", "U+11C58", "U+11C59", "U+11D50", "U+11D51", "U+11D52", "U+11D53", "U+11D54", "U+11D55", "U+11D56", "U+11D57",
    "U+11D58", "U+11D59", "U+11DA0", "U+11DA1", "U+11DA2", "U+11DA3", "U+11DA4", "U+11DA5", "U+11DA6", "U+11DA7", "U+11DA8", "U+11DA9",
    "U+16A60", "U+16A61", "U+16A62", "U+16A63", "U+16A64", "U+16A65", "U+16A66", "U+16A67", "U+16A68", "U+16A69", "U+16AC0", "U+16AC1",
    "U+16AC2", "U+16AC3", "U+16AC4", "U+16AC5", "U+16AC6", "U+16AC7", "U+16AC8", "U+16AC9", "U+16B50", "U+16B51", "U+16B52", "U+16B53",
    "U+16B54", "U+16B55", "U+16B56", "U+16B57", "U+16B58", "U+16B59", "U+1D7CE", "U+1D7CF", "U+1D7D0", "U+1D7D1", "U+1D7D2", "U+1D7D3",
    "U+1D7D4", "U+1D7D5", "U+1D7D6", "U+1D7D7", "U+1D7D8", "U+1D7D9", "U+1D7DA", "U+1D7DB", "U+1D7DC", "U+1D7DD", "U+1D7DE", "U+1D7DF",
    "U+1D7E0", "U+1D7E1", "U+1D7E2", "U+1D7E3", "U+1D7E4", "U+1D7E5", "U+1D7E6", "U+1D7E7", "U+1D7E8", "U+1D7E9", "U+1D7EA", "U+1D7EB",
    "U+1D7EC", "U+1D7ED", "U+1D7EE", "U+1D7EF", "U+1D7F0", "U+1D7F1", "U+1D7F2", "U+1D7F3", "U+1D7F4", "U+1D7F5", "U+1D7F6", "U+1D7F7",
    "U+1D7F8", "U+1D7F9", "U+1D7FA", "U+1D7FB", "U+1D7FC", "U+1D7FD", "U+1D7FE", "U+1D7FF", "U+1E140", "U+1E141", "U+1E142", "U+1E143",
    "U+1E144", "U+1E145", "U+1E146", "U+1E147", "U+1E148", "U+1E149", "U+1E2F0", "U+1E2F1", "U+1E2F2", "U+1E2F3", "U+1E2F4", "U+1E2F5",
    "U+1E2F6", "U+1E2F7", "U+1E2F8", "U+1E2F9", "U+1E950", "U+1E951", "U+1E952", "U+1E953", "U+1E954", "U+1E955", "U+1E956", "U+1E957",
    "U+1E958", "U+1E959", "U+1FBF0", "U+1FBF1", "U+1FBF2", "U+1FBF3", "U+1FBF4", "U+1FBF5", "U+1FBF6", "U+1FBF7", "U+1FBF8", "U+1FBF9"
  >>

Digito == Rango(DIGITOS_ND, 1, Len(DIGITOS_ND))   \* \d

\* the value of a decimal digit
ValorDeDigito(c) == ((CHOOSE k \in 1..Len(DIGITOS_ND) : DIGITOS_ND[k] = c) - 1) % 10

\* the white space: what \s matches and str.strip() strips (str.isspace())
Espacio ==
  {
    "\t", "\n", "U+000B", "\f", "\r", "U+001C", "U+001D", "U+001E", "U+001F", " ", "U+0085", "U+00A0",
    "U+1680", "U+2000", "U+2001", "U+2002", "U+2003", "U+2004", "U+2005", "U+2006", "U+2007", "U+2008", "U+2009", "U+200A",
    "U+2028", "U+2029", "U+202F", "U+205F", "U+3000"
  }

\* the characters whose lower case is another character, and that lower
\* case (for U+0130 the one-character lower case that re uses)
LOWER_DE ==
  <<
    "A", "B", "C", "D", "E", "F", "G", "H", "I", "J", "K", "L",
    "M", "N", "O", "P", "Q", "R", "S", "T", "U", "V", "W", "X",
    "Y", "Z", "À", "Á", "Â", "Ã", "Ä", "Å", "Æ", "Ç", "È", "É",
    "Ê", "Ë", "Ì", "Í", "Î", "Ï", "Ð", "Ñ", "Ò", "Ó", "Ô", "Õ",
    "Ö", "Ø", "Ù", "Ú", "Û", "Ü", "Ý", "Þ", "U+0100", "U+0102", "U+0104", "U+0106",
    "U+0108", "U+010A", "U+010C", "U+010E", "U+0110", "U+0112", "U+0114", "U+0116", "U+0118", "U+011A", "U+011C", "U+011E",
    "U+0120", "U+0122", "U+0124", "U+0126", "U+0128", "U+012A", "U+012C", "U+012E", "U+0130", "U+0132", "U+0134", "U+0136",
    "U+0139", "U+013B", "U+013D", "U+013F", "U+0141", "U+0143", "U+0145", "U+0147", "U+014A", "U+014C", "U+014E", "U+0150",
    "U+0152", "U+0154", "U+0156", "U+0158", "U+015A", "U+015C", "U+015E", "U+0160", "U+0162", "U+0164", "U+0166", "U+0168",
    "U+016A", "U+016C", "U+016E", "U+0170", "U+0172", "U+0174", "U+0176", "U+0178", "U+0179", "U+017B", "U+017D", "U+0181",
    "U+0182", "U+0184", "U+0186", "U+0187", "U+0189", "U+018A", "U+018B", "U+018E", "U+018F", "U+0190", "U+0191", "U+0193",
    "U+0194", "U+0196", "U+0197", "U+0198", "U+019C", "U+019D", "U+019F", "U+01A0", "U+01A2", "U+01A4", "U+01A6", "U+01A7",
    "U+01A9", "U+01AC", "U+01AE", "U+01AF", "U+01B1", "U+01B2", "U+01B3", "U+01B5", "U+01B7", "U+01B8", "U+01BC", "U+01C4",
    "U+01C5", "U+01C7", "U+01C8", "U+01CA", "U+01CB", "U+01CD", "U+01CF", "U+01D1", "U+01D3", "U+01D5", "U+01D7", "U+01D9",
    "U+01DB", "U+01DE", "U+01E0", "U+01E2", "U+01E4", "U+01E6", "U+01E8", "U+01EA", "U+01EC", "U+01EE", "U+01F1", "U+01F2",
    "U+01F4", "U+01F6", "U+01F7", "U+01F8", "U+01FA", "U+01FC", "U+01FE", "U+0200", "U+0202", "U+0204", "U+0206", "U+0208",
    "U+020A", "U+020C", "U+020E", "U+0210", "U+0212", "U+0214", "U+0216", "U+0218", "U+021A", "U+021C", "U+021E", "U+0220",
    "U+0222", "U+0224", "U+0226", "U+0228", "U+022A", "U+022C", "U+022E", "U+0230", "U+0232", "U+023A", "U+023B", "U+023D",
    "U+023E", "U+0241", "U+0243", "U+0244", "U+0245", "U+0246", "U+0248", "U+024A", "U+024C", "U+024E", "U+0370", "U+0372",
    "U+0376", "U+037F", "U+0386", "U+0388", "U+0389", "U+038A", "U+038C", "U+038E", "U+038F", "U+0391", "U+0392", "U+0393",
    "U+0394", "U+0395", "U+0396", "U+0397", "U+0398", "U+0399", "U+039A", "U+039B", "U+039C", "U+039D", "U+039E", "U+039F",
    "U+03A0", "U+03A1", "U+03A3", "U+03A4", "U+03A5", "U+03A6", "U+03A7", "U+03A8", "U+03A9", "U+03AA", "U+03AB", "U+03CF",
    "U+03D8", "U+03DA", "U+03DC", "U+03DE", "U+03E0", "U+03E2", "U+03E4", "U+03E6", "U+03E8", "U+03EA", "U+03EC", "U+03EE",
    "U+03F4", "U+03F7", "U+03F9", "U+03FA", "U+03FD", "U+03FE", "U+03FF", "U+0400", "U+0401", "U+0402", "U+0403", "U+0404",
    "U+0405", "U+0406", "U+0407", "U+0408", "U+0409", "U+040A", "U+040B", "U+040C", "U+040D", "U+040E", "U+040F", "U+0410",
    "U+0411", "U+0412", "U+0413", "U+0414", "U+0415", "U+0416", "U+0417", "U+0418", "U+0419", "U+041A", "U+041B", "U+041C",
    "U+041D", "U+041E", "U+041F", "U+0420", "U+0421", "U+0422", "U+0423", "U+0424", "U+0425", "U+0426", "U+0427", "U+0428",
    "U+0429", "U+042A", "U+042B", "U+042C", "U+042D", "U+042E", "U+042F", "U+0460", "U+0462", "U+0464", "U+0466", "U+0468",
    "U+046A", "U+046C", "U+046E", "U+0470", "U+0472", "U+0474", "U+0476", "U+0478", "U+047A", "U+047C", "U+047E", "U+0480",
    "U+048A", "U+048C", "U+048E", "U+0490", "U+0492", "U+0494", "U+0496", "U+0498", "U+049A", "U+049C", "U+049E", "U+04A0",
    "U+04A2", "U+04A4", "U+04A6", "U+04A8", "U+04AA", "U+04AC", "U+04AE", "U+04B0", "U+04B2", "U+04B4", "U+04B6", "U+04B8",
    "U+04BA", "U+04BC", "U+04BE", "U+04C0", "U+04C1", "U+04C3", "U+04C5", "U+04C7", "U+04C9", "U+04CB", "U+04CD", "U+04D0",
    "U+04D2", "U+04D4", "U+04D6", "U+04D8", "U+04DA", "U+04DC", "U+04DE", "U+04E0", "U+04E2", "U+04E4", "U+04E6", "U+04E8",
    "U+04EA", "U+04EC", "U+04EE", "U+04F0", "U+04F2", "U+04F4", "U+04F6", "U+04F8", "U+04FA", "U+04FC", "U+04FE", "U+0500",
    "U+0502", "U+0504", "U+0506", "U+0508", "U+050A", "U+050C", "U+050E", "U+0510", "U+0512", "U+0514", "U+0516", "U+0518",
    "U+051A", "U+051C", "U+051E", "U+0520", "U+0522", "U+0524", "U+0526", "U+0528", "U+052A", "U+052C", "U+052E", "U+0531",
    "U+0532", "U+0533", "U+0534", "U+0535", "U+0536", "U+0537", "U+0538", "U+0539", "U+053A", "U+053B", "U+053C", "U+053D",
    "U+053E", "U+053F", "U+0540", "U+0541", "U+0542", "U+0543", "U+0544", "U+0545", "U+0546", "U+0547", "U+0548", "U+0549",
    "U+054A", "U+054B", "U+054C", "U+054D", "U+054E", "U+054F", "U+0550", "U+0551", "U+0552", "U+0553", "U+0554", "U+0555",
    "U+0556", "U+10A0", "U+10A1", "U+10A2", "U+10A3", "U+10A4", "U+10A5", "U+10A6", "U+10A7", "U+10A8", "U+10A9", "U+10AA",
    "U+10AB", "U+10AC", "U+10AD", "U+10AE", "U+10AF", "U+10B0", "U+10B1", "U+10B2", "U+10B3", "U+10B4", "U+10B5", "U+10B6",
    "U+10B7", "U+10B8", "U+10B9", "U+10BA", "U+10BB", "U+10BC", "U+10BD", "U+10BE", "U+10BF", "U+10C0", "U+10C1", "U+10C2",
    "U+10C3", "U+10C4", "U+10C5", "U+10C7", "U+10CD", "U+13A0", "U+13A1", "U+13A2", "U+13A3", "U+13A4", "U+13A5", "U+13A6",
    "U+13A7", "U+13A8", "U+13A9", "U+13AA", "U+13AB", "U+13AC", "U+13AD", "U+13AE", "U+13AF", "U+13B0", "U+13B1", "U+13B2",
    "U+13B3", "U+13B4", "U+13B5", "U+13B6", "U+13B7", "U+13B8", "U+13B9", "U+13BA", "U+13BB", "U+13BC", "U+13BD", "U+13BE",
    "U+13BF", "U+13C0", "U+13C1", "U+13C2", "U+13C3", "U+13C4", "U+13C5", "U+13C6", "U+13C7", "U+13C8", "U+13C9", "U+13CA",
    "U+13CB", "U+13CC", "U+13CD", "U+13CE", "U+13CF", "U+13D0", "U+13D1", "U+13D2", "U+13D3", "U+13D4", "U+13D5", "U+13D6",
    "U+13D7", "U+13D8", "U+13D9", "U+13DA", "U+13DB", "U+13DC", "U+13DD", "U+13DE", "U+13DF", "U+13E0", "U+13E1", "U+13E2",
    "U+13E3", "U+13E4", "U+13E5", "U+13E6", "U+13E7", "U+13E8", "U+13E9", "U+13EA", "U+13EB", "U+13EC", "U+13ED", "U+13EE",
    "U+13EF", "U+13F0", "U+13F1", "U+13F2", "U+13F3", "U+13F4", "U+13F5", "U+1C90", "U+1C91", "U+1C92", "U+1C93", "U+1C94",
    "U+1C95", "U+1C96", "U+1C97", "U+1C98", "U+1C99", "U+1C9A", "U+1C9B", "U+1C9C", "U+1C9D", "U+1C9E", "U+1C9F", "U+1CA0",
    "U+1CA1", "U+1CA2", "U+1CA3", "U+1CA4", "U+1CA5", "U+1CA6", "U+1CA7", "U+1CA8", "U+1CA9", "U+1CAA", "U+1CAB", "U+1CAC",
    "U+1CAD", "U+1CAE", "U+1CAF", "U+1CB0", "U+1CB1", "U+1CB2", "U+1CB3", "U+1CB4", "U+1CB5", "U+1CB6", "U+1CB7", "U+1CB8",
    "U+1CB9", "U+1CBA", "U+1CBD", "U+1CBE", "U+1CBF", "U+1E00", "U+1E02", "U+1E04", "U+1E06", "U+1E08", "U+1E0A", "U+1E0C",
    "U+1E0E", "U+1E10", "U+1E12", "U+1E14", "U+1E16", "U+1E18", "U+1E1A", "U+1E1C", "U+1E1E", "U+1E20", "U+1E22", "U+1E24",
    "U+1E26", "U+1E28", "U+1E2A", "U+1E2C", "U+1E2E", "U+1E30", "U+1E32", "U+1E34", "U+1E36", "U+1E38", "U+1E3A", "U+1E3C",
    "U+1E3E", "U+1E40", "U+1E42", "U+1E44", "U+1E46", "U+1E48", "U+1E4A", "U+1E4C", "U+1E4E", "U+1E50", "U+1E52", "U+1E54",
    "U+1E56", "U+1E58", "U+1E5A", "U+1E5C", "U+1E5E", "U+1E60", "U+1E62", "U+1E64", "U+1E66", "U+1E68", "U+1E6A", "U+1E6C",
    "U+1E6E", "U+1E70", "U+1E72", "U+1E74", "U+1E76", "U+1E78", "U+1E7A", "U+1E7C", "U+1E7E", "U+1E80", "U+1E82", "U+1E84",
    "U+1E86", "U+1E88", "U+1E8A", "U+1E8C", "U+1E8E", "U+1E90", "U+1E92", "U+1E94", "U+1E9E", "U+1EA0", "U+1EA2", "U+1EA4",
    "U+1EA6", "U+1EA8", "U+1EAA", "U+1EAC", "U+1EAE", "U+1EB0", "U+1EB2", "U+1EB4", "U+1EB6", "U+1EB8", "U+1EBA", "U+1EBC",
    "U+1EBE", "U+1EC0", "U+1EC2", "U+1EC4", "U+1EC6", "U+1EC8", "U+1ECA", "U+1ECC", "U+1ECE", "U+1ED0", "U+1ED2", "U+1ED4",
    "U+1ED6", "U+1ED8", "U+1EDA", "U+1EDC", "U+1EDE", "U+1EE0", "U+1EE2", "U+1EE4", "U+1EE6", "U+1EE8", "U+1EEA", "U+1EEC",
    "U+1EEE", "U+1EF0", "U+1EF2", "U+1EF4", "U+1EF6", "U+1EF8", "U+1EFA", "U+1EFC", "U+1EFE", "U+1F08", "U+1F09", "U+1F0A",
    "U+1F0B", "U+1F0C", "U+1F0D", "U+1F0E", "U+1F0F", "U+1F18", "U+1F19", "U+1F1A", "U+1F1B", "U+1F1C", "U+1F1D", "U+1F28",
    "U+1F29", "U+1F2A", "U+1F2B", "U+1F2C", "U+1F2D", "U+1F2E", "U+1F2F", "U+1F38", "U+1F39", "U+1F3A", "U+1F3B", "U+1F3C",
    "U+1F3D", "U+1F3E", "U+1F3F", "U+1F48", "U+1F49", "U+1F4A", "U+1F4B", "U+1F4C", "U+1F4D", "U+1F59", "U+1F5B", "U+1F5D",
    "U+1F5F", "U+1F68", "U+1F69", "U+1F6A", "U+1F6B", "U+1F6C", "U+1F6D", "U+1F6E", "U+1F6F", "U+1F88", "U+1F89", "U+1F8A",
    "U+1F8B", "U+1F8C", "U+1F8D", "U+1F8E", "U+1F8F", "U+1F98", "U+1F99", "U+1F9A", "U+1F9B", "U+1F9C", "U+1F9D", "U+1F9E",
    "U+1F9F", "U+1FA8", "U+1FA9", "U+1FAA", "U+1FAB", "U+1FAC", "U+1FAD", "U+1FAE", "U+1FAF", "U+1FB8", "U+1FB9", "U+1FBA",
    "U+1FBB", "U+1FBC", "U+1FC8", "U+1FC9", "U+1FCA", "U+1FCB", "U+1FCC", "U+1FD8", "U+1FD9", "U+1FDA", "U+1FDB", "U+1FE8",
    "U+1FE9", "U+1FEA", "U+1FEB", "U+1FEC", "U+1FF8", "U+1FF9", "U+1FFA", "U+1FFB", "U+1FFC", "U+2126", "U+212A", "U+212B",
    "U+2132", "U+2160", "U+2161", "U+2162", "U+2163", "U+2164", "U+2165", "U+2166", "U+2167", "U+2168", "U+2169", "U+216A",
    "U+216B", "U+216C", "U+216D", "U+216E", "U+216F", "U+2183", "U+24B6", "U+24B7", "U+24B8", "U+24B9", "U+24BA", "U+24BB",
    "U+24BC", "U+24BD", "U+24BE", "U+24BF", "U+24C0", "U+24C1", "U+24C2", "U+24C3", "U+24C4", "U+24C5", "U+24C6", "U+24C7",
    "U+24C8", "U+24C9", "U+24CA", "U+24CB", "U+24CC", "U+24CD", "U+24CE", "U+24CF", "U+2C00", "U+2C01", "U+2C02", "U+2C03",
    "U+2C04", "U+2C05", "U+2C06", "U+2C07", "U+2C08", "U+2C09", "U+2C0A", "U+2C0B", "U+2C0C", "U+2C0D", "U+2C0E", "U+2C0F",
    "U+2C10", "U+2C11", "U+2C12", "U+2C13", "U+2C14", "U+2C15", "U+2C16", "U+2C17", "U+2C18", "U+2C19", "U+2C1A", "U+2C1B",
    "U+2C1C", "U+2C1D", "U+2C1E", "U+2C1F", "U+2C20", "U+2C21", "U+2C22", "U+2C23", "U+2C24", "U+2C25", "U+2C26", "U+2C27",
    "U+2C28", "U+2C29", "U+2C2A", "U+2C2B", "U+2C2C", "U+2C2D", "U+2C2E", "U+2C2F", "U+2C60", "U+2C62", "U+2C63", "U+2C64",
    "U+2C67", "U+2C69", "U+2C6B", "U+2C6D", "U+2C6E", "U+2C6F", "U+2C70", "U+2C72", "U+2C75", "U+2C7E", "U+2C7F", "U+2C80",
    "U+2C82", "U+2C84", "U+2C86", "U+2C88", "U+2C8A", "U+2C8C", "U+2C8E", "U+2C90", "U+2C92", "U+2C94", "U+2C96", "U+2C98",
    "U+2C9A", "U+2C9C", "U+2C9E", "U+2CA0", "U+2CA2", "U+2CA4", "U+2CA6", "U+2CA8", "U+2CAA", "U+2CAC", "U+2CAE", "U+2CB0",
    "U+2CB2", "U+2CB4", "U+2CB6", "U+2CB8", "U+2CBA", "U+2CBC", "U+2CBE", "U+2CC0", "U+2CC2", "U+2CC4", "U+2CC6", "U+2CC8",
    "U+2CCA", "U+2CCC", "U+2CCE", "U+2CD0", "U+2CD2", "U+2CD4", "U+2CD6", "U+2CD8", "U+2CDA", "U+2CDC", "U+2CDE", "U+2CE0",
    "U+2CE2", "U+2CEB", "U+2CED", "U+2CF2", "U+A640", "U+A642", "U+A644", "U+A646", "U+A648", "U+A64A", "U+A64C", "U+A64E",
    "U+A650", "U+A652", "U+A654", "U+A656", "U+A658", "U+A65A", "U+A65C", "U+A65E", "U+A660", "U+A662", "U+A664", "U+A666",
    "U+A668", "U+A66A", "U+A66C", "U+A680", "U+A682", "U+A684", "U+A686", "U+A688", "U+A68A", "U+A68C", "U+A68E", "U+A690",
    "U+A692", "U+A694", "U+A696", "U+A698", "U+A69A", "U+A722", "U+A724", "U+A726", "U+A728", "U+A72A", "U+A72C", "U+A72E",
    "U+A732", "U+A734", "U+A736", "U+A738", "U+A73A", "U+A73C", "U+A73E", "U+A740", "U+A742", "U+A744", "U+A746", "U+A748",
    "U+A74A", "U+A74C", "U+A74E", "U+A750", "U+A752", "U+A754", "U+A756", "U+A758", "U+A75A", "U+A75C", "U+A75E", "U+A760",
    "U+A762", "U+A764", "U+A766", "U+A768", "U+A76A", "U+A76C", "U+A76E", "U+A779", "U+A77B", "U+A77D", "U+A77E", "U+A780",
    "U+A782", "U+A784", "U+A786", "U+A78B", "U+A78D", "U+A790", "U+A792", "U+A796", "U+A798", "U+A79A", "U+A79C", "U+A79E",
    "U+A7A0", "U+A7A2", "U+A7A4", "U+A7A6", "U+A7A8", "U+A7AA", "U+A7AB", "U+A7AC", "U+A7AD", "U+A7AE", "U+A7B0", "U+A7B1",
    "U+A7B2", "U+A7B3", "U+A7B4", "U+A7B6", "U+A7B8", "U+A7BA", "U+A7BC", "U+A7BE", "U+A7C0", "U+A7C2", "U+A7C4", "U+A7C5",
    "U+A7C6", "U+A7C7", "U+A7C9", "U+A7D0", "U+A7D6", "U+A7D8", "U+A7F5", "U+FF21", "U+FF22", "U+FF23", "U+FF24", "U+FF25",
    "U+FF26", "U+FF27", "U+FF28", "U+FF29", "U+FF2A", "U+FF2B", "U+FF2C", "U+FF2D", "U+FF2E", "U+FF2F", "U+FF30", "U+FF31",
    "U+FF32", "U+FF33", "U+FF34", "U+FF35", "U+FF36", "U+FF37", "U+FF38", "U+FF39", "U+FF3A", "U+10400", "U+10401", "U+10402",
    "U+10403", "U+10404", "U+10405", "U+10406", "U+10407", "U+10408", "U+10409", "U+1040A", "U+1040B", "U+1040C", "U+1040D", "U+1040E",
    "U+1040F", "U+10410", "U+10411", "U+10412", "U+10413", "U+10414", "U+10415", "U+10416", "U+10417", "U+10418", "U+10419", "U+1041A",
    "U+1041B", "U+1041C", "U+1041D", "U+1041E", "U+1041F", "U+10420", "U+10421", "U+10422", "U+10423", "U+10424", "U+10425", "U+10426",
    "U+10427", "U+104B0", "U+104B1", "U+104B2", "U+104B3", "U+104B4", "U+104B5", "U+104B6", "U+104B7", "U+104B8", "U+104B9", "U+104BA",
    "U+104BB", "U+104BC", "U+104BD", "U+104BE", "U+104BF", "U+104C0", "U+104C1", "U+104C2", "U+104C3", "U+104C4", "U+104C5", "U+104C6",
    "U+104C7", "U+104C8", "U+104C9", "U+104CA", "U+104CB", "U+104CC", "U+104CD", "U+104CE", "U+104CF", "U+104D0", "U+104D1", "U+104D2",
    "U+104D3", "U+10570", "U+10571", "U+10572", "U+10573", "U+10574", "U+10575", "U+10576", "U+10577", "U+10578", "U+10579", "U+1057A",
    "U+1057C", "U+1057D", "U+1057E", "U+1057F", "U+10580", "U+10581", "U+10582", "U+10583", "U+10584", "U+10585", "U+10586", "U+10587",
    "U+10588", "U+10589", "U+1058A", "U+1058C", "U+1058D", "U+1058E", "U+1058F", "U+10590", "U+10591", "U+10592", "U+10594", "U+10595",
    "U+10C80", "U+10C81", "U+10C82", "U+10C83", "U+10C84", "U+10C85", "U+10C86", "U+10C87", "U+10C88", "U+10C89", "U+10C8A", "U+10C8B",
    "U+10C8C", "U+10C8D", "U+10C8E", "U+10C8F", "U+10C90", "U+10C91", "U+10C92", "U+10C93", "U+10C94", "U+10C95", "U+10C96", "U+10C97",
    "U+10C98", "U+10C99", "U+10C9A", "U+10C9B", "U+10C9C", "U+10C9D", "U+10C9E", "U+10C9F", "U+10CA0", "U+10CA1", "U+10CA2", "U+10CA3",
    "U+10CA4", "U+10CA5", "U+10CA6", "U+10CA7", "U+10CA8", "U+10CA9", "U+10CAA", "U+10CAB", "U+10CAC", "U+10CAD", "U+10CAE", "U+10CAF",
    "U+10CB0", "U+10CB1", "U+10CB2", "U+118A0", "U+118A1", "U+118A2", "U+118A3", "U+118A4", "U+118A5", "U+118A6", "U+118A7", "U+118A8",
    "U+118A9", "U+118AA", "U+118AB", "U+118AC", "U+118AD", "U+118AE", "U+118AF", "U+118B0", "U+118B1", "U+118B2", "U+118B3", "U+118B4",
    "U+118B5", "U+118B6", "U+118B7", "U+118B8", "U+118B9", "U+118BA", "U+118BB", "U+118BC", "U+118BD", "U+118BE", "U+118BF", "U+16E40",
    "U+16E41", "U+16E42", "U+16E43", "U+16E44", "U+16E45", "U+16E46", "U+16E47", "U+16E48", "U+16E49", "U+16E4A", "U+16E4B", "U+16E4C",
    "U+16E4D", "U+16E4E", "U+16E4F", "U+16E50", "U+16E51", "U+16E52", "U+16E53", "U+16E54", "U+16E55", "U+16E56", "U+16E57", "U+16E58",
    "U+16E59", "U+16E5A", "U+16E5B", "U+16E5C", "U+16E5D", "U+16E5E", "U+16E5F", "U+1E900", "U+1E901", "U+1E902", "U+1E903", "U+1E904",
    "U+1E905", "U+1E906", "U+1E907", "U+1E908", "U+1E909", "U+1E90A", "U+1E90B", "U+1E90C", "U+1E90D", "U+1E90E", "U+1E90F", "U+1E910",
    "U+1E911", "U+1E912", "U+1E913", "U+1E914", "U+1E915", "U+1E916", "U+1E917", "U+1E918", "U+1E919", "U+1E91A", "U+1E91B", "U+1E91C",
    "U+1E91D", "U+1E91E", "U+1E91F", "U+1E920", "U+1E921"
  >>

LOWER_A ==
  <<
    "a", "b", "c", "d", "e", "f", "g", "h", "i", "j", "k", "l",
    "m", "n", "o", "p", "q", "r", "s", "t", "u", "v", "w", "x",
    "y", "z", "à", "á", "â", "ã", "ä", "å", "æ", "ç", "è", "é",
    "ê", "ë", "ì", "í", "î", "ï", "ð", "ñ", "ò", "ó", "ô", "õ",
    "ö", "ø", "ù", "ú", "û", "ü", "ý", "þ", "U+0101", "U+0103", "U+0105", "U+0107",
    "U+0109", "U+010B", "U+010D", "U+010F", "U+0111", "U+0113", "U+0115", "U+0117", "U+0119", "U+011B", "U+011D", "U+011F",
    "U+0121", "U+0123", "U+0125", "U+0127", "U+0129", "U+012B", "U+012D", "U+012F", "i", "U+0133", "U+0135", "U+0137",
    "U+013A", "U+013C", "U+013E", "U+0140", "U+0142", "U+0144", "U+0146", "U+0148", "U+014B", "U+014D", "U+014F", "U+0151",
    "U+0153", "U+0155", "U+0157", "U+0159", "U+015B", "U+015D", "U+015F", "U+0161", "U+0163", "U+0165", "U+0167", "U+0169",
    "U+016B", "U+016D", "U+016F", "U+0171", "U+0173", "U+0175", "U+0177", "ÿ", "U+017A", "U+017C", "U+017E", "U+0253",
    "U+0183", "U+0185", "U+0254", "U+0188", "U+0256", "U+0257", "U+018C", "U+01DD", "U+0259", "U+025B", "U+0192", "U+0260",
    "U+0263", "U+0269", "U+0268", "U+0199", "U+026F", "U+0272", "U+0275", "U+01A1", "U+01A3", "U+01A5", "U+0280", "U+01A8",
    "U+0283", "U+01AD", "U+0288", "U+01B0", "U+028A", "U+028B", "U+01B4", "U+01B6", "U+0292", "U+01B9", "U+01BD", "U+01C6",
    "U+01C6", "U+01C9", "U+01C9", "U+01CC", "U+01CC", "U+01CE", "U+01D0", "U+01D2", "U+01D4", "U+01D6", "U+01D8", "U+01DA",
    "U+01DC", "U+01DF", "U+01E1", "U+01E3", "U+01E5", "U+01E7", "U+01E9", "U+01EB", "U+01ED", "U+01EF", "U+01F3", "U+01F3",
    "U+01F5", "U+0195", "U+01BF", "U+01F9", "U+01FB", "U+01FD", "U+01FF", "U+0201", "U+0203", "U+0205", "U+0207", "U+0209",
    "U+020B", "U+020D", "U+020F", "U+0211", "U+0213", "U+0215", "U+0217", "U+0219", "U+021B", "U+021D", "U+021F", "U+019E",
    "U+0223", "U+0225", "U+0227", "U+0229", "U+022B", "U+022D", "U+022F", "U+0231", "U+0233", "U+2C65", "U+023C", "U+019A",
    "U+2C66", "U+0242", "U+0180", "U+0289", "U+028C", "U+0247", "U+0249", "U+024B", "U+024D", "U+024F", "U+0371", "U+0373",
    "U+0377", "U+03F3", "U+03AC", "U+03AD", "U+03AE", "U+03AF", "U+03CC", "U+03CD", "U+03CE", "U+03B1", "U+03B2", "U+03B3",
    "U+03B4", "U+03B5", "U+03B6", "U+03B7", "U+03B8", "U+03B9", "U+03BA", "U+03BB", "U+03BC", "U+03BD", "U+03BE", "U+03BF",
    "U+03C0", "U+03C1", "U+03C3", "U+03C4", "U+03C5", "U+03C6", "U+03C7", "U+03C8", "U+03C9", "U+03CA", "U+03CB", "U+03D7",
    "U+03D9", "U+03DB", "U+03DD", "U+03DF", "U+03E1", "U+03E3", "U+03E5", "U+03E7", "U+03E9", "U+03EB", "U+03ED", "U+03EF",
    "U+03B8", "U+03F8", "U+03F2", "U+03FB", "U+037B", "U+037C", "U+037D", "U+0450", "U+0451", "U+0452", "U+0453", "U+0454",
    "U+0455", "U+0456", "U+0457", "U+0458", "U+0459", "U+045A", "U+045B", "U+045C", "U+045D", "U+045E", "U+045F", "U+0430",
    "U+0431", "U+0432", "U+0433", "U+0434", "U+0435", "U+0436", "U+0437", "U+0438", "U+0439", "U+043A", "U+043B", "U+043C",
    "U+043D", "U+043E", "U+043F", "U+0440", "U+0441", "U+0442", "U+0443", "U+0444", "U+0445", "U+0446", "U+0447", "U+0448",
    "U+0449", "U+044A", "U+044B", "U+044C", "U+044D", "U+044E", "U+044F", "U+0461", "U+0463", "U+0465", "U+0467", "U+0469",
    "U+046B", "U+046D", "U+046F", "U+0471", "U+0473", "U+0475", "U+0477", "U+0479", "U+047B", "U+047D", "U+047F", "U+0481",
    "U+048B", "U+048D", "U+048F", "U+0491", "U+0493", "U+0495", "U+0497", "U+0499", "U+049B", "U+049D", "U+049F", "U+04A1",
    "U+04A3", "U+04A5", "U+04A7", "U+04A9", "U+04AB", "U+04AD", "U+04AF", "U+04B1", "U+04B3", "U+04B5", "U+04B7", "U+04B9",
    "U+04BB", "U+04BD", "U+04BF", "U+04CF", "U+04C2", "U+04C4", "U+04C6", "U+04C8", "U+04CA", "U+04CC", "U+04CE", "U+04D1",
    "U+04D3", "U+04D5", "U+04D7", "U+04D9", "U+04DB", "U+04DD", "U+04DF", "U+04E1", "U+04E3", "U+04E5", "U+04E7", "U+04E9",
    "U+04EB", "U+04ED", "U+04EF", "U+04F1", "U+04F3", "U+04F5", "U+04F7", "U+04F9", "U+04FB", "U+04FD", "U+04FF", "U+0501",
    "U+0503", "U+0505", "U+0507", "U+0509", "U+050B", "U+050D", "U+050F", "U+0511", "U+0513", "U+0515", "U+0517", "U+0519",
    "U+051B", "U+051D", "U+051F", "U+0521", "U+0523", "U+0525", "U+0527", "U+0529", "U+052B", "U+052D", "U+052F", "U+0561",
    "U+0562", "U+0563", "U+0564", "U+0565", "U+0566", "U+0567", "U+0568", "U+0569", "U+056A", "U+056B", "U+056C", "U+056D",
    "U+056E", "U+056F", "U+0570", "U+0571", "U+0572", "U+0573", "U+0574", "U+0575", "U+0576", "U+0577", "U+0578", "U+0579",
    "U+057A", "U+057B", "U+057C", "U+057D", "U+057E", "U+057F", "U+0580", "U+0581", "U+0582", "U+0583", "U+0584", "U+0585",
    "U+0586", "U+2D00", "U+2D01", "U+2D02", "U+2D03", "U+2D04", "U+2D05", "U+2D06", "U+2D07", "U+2D08", "U+2D09", "U+2D0A",
    "U+2D0B", "U+2D0C", "U+2D0D", "U+2D0E", "U+2D0F", "U+2D10", "U+2D11", "U+2D12", "U+2D13", "U+2D14", "U+2D15", "U+2D16",
    "U+2D17", "U+2D18", "U+2D19", "U+2D1A", "U+2D1B", "U+2D1C", "U+2D1D", "U+2D1E", "U+2D1F", "U+2D20", "U+2D21", "U+2D22",
    "U+2D23", "U+2D24", "U+2D25", "U+2D27", "U+2D2D", "U+AB70", "U+AB71", "U+AB72", "U+AB73", "U+AB74", "U+AB75", "U+AB76",
    "U+AB77", "U+AB78", "U+AB79", "U+AB7A", "U+AB7B", "U+AB7C", "U+AB7D", "U+AB7E", "U+AB7F", "U+AB80", "U+AB81", "U+AB82",
    "U+AB83", "U+AB84", "U+AB85", "U+AB86", "U+AB87", "U+AB88", "U+AB89", "U+AB8A", "U+AB8B", "U+AB8C", "U+AB8D", "U+AB8E",
    "U+AB8F", "U+AB90", "U+AB91", "U+AB92", "U+AB93", "U+AB94", "U+AB95", "U+AB96", "U+AB97", "U+AB98", "U+AB99", "U+AB9A",
    "U+AB9B", "U+AB9C", "U+AB9D", "U+AB9E", "U+AB9F", "U+ABA0", "U+ABA1", "U+ABA2", "U+ABA3", "U+ABA4", "U+ABA5", "U+ABA6",
    "U+ABA7", "U+ABA8", "U+ABA9", "U+ABAA", "U+ABAB", "U+ABAC", "U+ABAD", "U+ABAE", "U+ABAF", "U+ABB0", "U+ABB1", "U+ABB2",
    "U+ABB3", "U+ABB4", "U+ABB5", "U+ABB6", "U+ABB7", "U+ABB8", "U+ABB9", "U+ABBA", "U+ABBB", "U+ABBC", "U+ABBD", "U+ABBE",
    "U+ABBF", "U+13F8", "U+13F9", "U+13FA", "U+13FB", "U+13FC", "U+13FD", "U+10D0", "U+10D1", "U+10D2", "U+10D3", "U+10D4",
    "U+10D5", "U+10D6", "U+10D7", "U+10D8", "U+10D9", "U+10DA", "U+10DB", "U+10DC", "U+10DD", "U+10DE", "U+10DF", "U+10E0",
    "U+10E1", "U+10E2", "U+10E3", "U+10E4", "U+10E5", "U+10E6", "U+10E7", "U+10E8", "U+10E9", "U+10EA", "U+10EB", "U+10EC",
    "U+10ED", "U+10EE", "U+10EF", "U+10F0", "U+10F1", "U+10F2", "U+10F3", "U+10F4", "U+10F5", "U+10F6", "U+10F7", "U+10F8",
    "U+10F9", "U+10FA", "U+10FD", "U+10FE", "U+10FF", "U+1E01", "U+1E03", "U+1E05", "U+1E07", "U+1E09", "U+1E0B", "U+1E0D",
    "U+1E0F", "U+1E11", "U+1E13", "U+1E15", "U+1E17", "U+1E19", "U+1E1B", "U+1E1D", "U+1E1F", "U+1E21", "U+1E23", "U+1E25",
    "U+1E27", "U+1E29", "U+1E2B", "U+1E2D", "U+1E2F", "U+1E31", "U+1E33", "U+1E35", "U+1E37", "U+1E39", "U+1E3B", "U+1E3D",
    "U+1E3F", "U+1E41", "U+1E43", "U+1E45", "U+1E47", "U+1E49", "U+1E4B", "U+1E4D", "U+1E4F", "U+1E51", "U+1E53", "U+1E55",
    "U+1E57", "U+1E59", "U+1E5B", "U+1E5D", "U+1E5F", "U+1E61", "U+1E63", "U+1E65", "U+1E67", "U+1E69", "U+1E6B", "U+1E6D",
    "U+1E6F", "U+1E71", "U+1E73", "U+1E75", "U+1E77", "U+1E79", "U+1E7B", "U+1E7D", "U+1E7F", "U+1E81", "U+1E83", "U+1E85",
    "U+1E87", "U+1E89", "U+1E8B", "U+1E8D", "U+1E8F", "U+1E91", "U+1E93", "U+1E95", "ß", "U+1EA1", "U+1EA3", "U+1EA5",
    "U+1EA7", "U+1EA9", "U+1EAB", "U+1EAD", "U+1EAF", "U+1EB1", "U+1EB3", "U+1EB5", "U+1EB7", "U+1EB9", "U+1EBB", "U+1EBD",
    "U+1EBF", "U+1EC1", "U+1EC3", "U+1EC5", "U+1EC7", "U+1EC9", "U+1ECB", "U+1ECD", "U+1ECF", "U+1ED1", "U+1ED3", "U+1ED5",
    "U+1ED7", "U+1ED9", "U+1EDB", "U+1EDD", "U+1EDF", "U+1EE1", "U+1EE3", "U+1EE5", "U+1EE7", "U+1EE9", "U+1EEB", "U+1EED",
    "U+1EEF", "U+1EF1", "U+1EF3", "U+1EF5", "U+1EF7", "U+1EF9", "U+1EFB", "U+1EFD", "U+1EFF", "U+1F00", "U+1F01", "U+1F02",
    "U+1F03", "U+1F04", "U+1F05", "U+1F06", "U+1F07", "U+1F10", "U+1F11", "U+1F12", "U+1F13", "U+1F14", "U+1F15", "U+1F20",
    "U+1F21", "U+1F22", "U+1F23", "U+1F24", "U+1F25", "U+1F26", "U+1F27", "U+1F30", "U+1F31", "U+1F32", "U+1F33", "U+1F34",
    "U+1F35", "U+1F36", "U+1F37", "U+1F40", "U+1F41", "U+1F42", "U+1F43", "U+1F44", "U+1F45", "U+1F51", "U+1F53", "U+1F55",
    "U+1F57", "U+1F60", "U+1F61", "U+1F62", "U+1F63", "U+1F64", "U+1F65", "U+1F66", "U+1F67", "U+1F80", "U+1F81", "U+1F82",
    "U+1F83", "U+1F84", "U+1F85", "U+1F86", "U+1F87", "U+1F90", "U+1F91", "U+1F92", "U+1F93", "U+1F94", "U+1F95", "U+1F96",
    "U+1F97", "U+1FA0", "U+1FA1", "U+1FA2", "U+1FA3", "U+1FA4", "U+1FA5", "U+1FA6", "U+1FA7", "U+1FB0", "U+1FB1", "U+1F70",
    "U+1F71", "U+1FB3", "U+1F72", "U+1F73", "U+1F74", "U+1F75", "U+1FC3", "U+1FD0", "U+1FD1", "U+1F76", "U+1F77", "U+1FE0",
    "U+1FE1", "U+1F7A", "U+1F7B", "U+1FE5", "U+1F78", "U+1F79", "U+1F7C", "U+1F7D", "U+1FF3", "U+03C9", "k", "å",
    "U+214E", "U+2170", "U+2171", "U+2172", "U+2173", "U+2174", "U+2175", "U+2176", "U+2177", "U+2178", "U+2179", "U+217A",
    "U+217B", "U+217C", "U+217D", "U+217E", "U+217F", "U+2184", "U+24D0", "U+24D1", "U+24D2", "U+24D3", "U+24D4", "U+24D5",
    "U+24D6", "U+24D7", "U+24D8", "U+24D9", "U+24DA", "U+24DB", "U+24DC", "U+24DD", "U+24DE", "U+24DF", "U+24E0", "U+24E1",
    "U+24E2", "U+24E3", "U+24E4", "U+24E5", "U+24E6", "U+24E7", "U+24E8", "U+24E9", "U+2C30", "U+2C31", "U+2C32", "U+2C33",
    "U+2C34", "U+2C35", "U+2C36", "U+2C37", "U+2C38", "U+2C39", "U+2C3A", "U+2C3B", "U+2C3C", "U+2C3D", "U+2C3E", "U+2C3F",
    "U+2C40", "U+2C41", "U+2C42", "U+2C43", "U+2C44", "U+2C45", "U+2C46", "U+2C47", "U+2C48", "U+2C49", "U+2C4A", "U+2C4B",
    "U+2C4C", "U+2C4D", "U+2C4E", "U+2C4F", "U+2C50", "U+2C51", "U+2C52", "U+2C53", "U+2C54", "U+2C55", "U+2C56", "U+2C57",
    "U+2C58", "U+2C59", "U+2C5A", "U+2C5B", "U+2C5C", "U+2C5D", "U+2C5E", "U+2C5F", "U+2C61", "U+026B", "U+1D7D", "U+027D",
    "U+2C68", "U+2C6A", "U+2C6C", "U+0251", "U+0271", "U+0250", "U+0252", "U+2C73", "U+2C76", "U+023F", "U+0240", "U+2C81",
    "U+2C83", "U+2C85", "U+2C87", "U+2C89", "U+2C8B", "U+2C8D", "U+2C8F", "U+2C91", "U+2C93", "U+2C95", "U+2C97", "U+2C99",
    "U+2C9B", "U+2C9D", "U+2C9F", "U+2CA1", "U+2CA3", "U+2CA5", "U+2CA7", "U+2CA9", "U+2CAB", "U+2CAD", "U+2CAF", "U+2CB1",
    "U+2CB3", "U+2CB5", "U+2CB7", "U+2CB9", "U+2CBB", "U+2CBD", "U+2CBF", "U+2CC1", "U+2CC3", "U+2CC5", "U+2CC7", "U+2CC9",
    "U+2CCB", "U+2CCD", "U+2CCF", "U+2CD1", "U+2CD3", "U+2CD5", "U+2CD7", "U+2CD9", "U+2CDB", "U+2CDD", "U+2CDF", "U+2CE1",
    "U+2CE3", "U+2CEC", "U+2CEE", "U+2CF3", "U+A641", "U+A643", "U+A645", "U+A647", "U+A649", "U+A64B", "U+A64D", "U+A64F",
    "U+A651", "U+A653", "U+A655", "U+A657", "U+A659", "U+A65B", "U+A65D", "U+A65F", "U+A661", "U+A663", "U+A665", "U+A667",
    "U+A669", "U+A66B", "U+A66D", "U+A681", "U+A683", "U+A685", "U+A687", "U+A689", "U+A68B", "U+A68D", "U+A68F", "U+A691",
    "U+A693", "U+A695", "U+A697", "U+A699", "U+A69B", "U+A723", "U+A725", "U+A727", "U+A729", "U+A72B", "U+A72D", "U+A72F",
    "U+A733", "U+A735", "U+A737", "U+A739", "U+A73B", "U+A73D", "U+A73F", "U+A741", "U+A743", "U+A745", "U+A747", "U+A749",
    "U+A74B", "U+A74D", "U+A74F", "U+A751", "U+A753", "U+A755", "U+A757", "U+A759", "U+A75B", "U+A75D", "U+A75F", "U+A761",
    "U+A763", "U+A765", "U+A767", "U+A769", "U+A76B", "U+A76D", "U+A76F", "U+A77A", "U+A77C", "U+1D79", "U+A77F", "U+A781",
    "U+A783", "U+A785", "U+A787", "U+A78C", "U+0265", "U+A791", "U+A793", "U+A797", "U+A799", "U+A79B", "U+A79D", "U+A79F",
    "U+A7A1", "U+A7A3", "U+A7A5", "U+A7A7", "U+A7A9", "U+0266", "U+025C", "U+0261", "U+026C", "U+026A", "U+029E", "U+0287",
    "U+029D", "U+AB53", "U+A7B5", "U+A7B7", "U+A7B9", "U+A7BB", "U+A7BD", "U+A7BF", "U+A7C1", "U+A7C3", "U+A794", "U+0282",
    "U+1D8E", "U+A7C8", "U+A7CA", "U+A7D1", "U+A7D7", "U+A7D9", "U+A7F6", "U+FF41", "U+FF42", "U+FF43", "U+FF44", "U+FF45",
    "U+FF46", "U+FF47", "U+FF48", "U+FF49", "U+FF4A", "U+FF4B", "U+FF4C", "U+FF4D", "U+FF4E", "U+FF4F", "U+FF50", "U+FF51",
    "U+FF52", "U+FF53", "U+FF54", "U+FF55", "U+FF56", "U+FF57", "U+FF58", "U+FF59", "U+FF5A", "U+10428", "U+10429", "U+1042A",
    "U+1042B", "U+1042C", "U+1042D", "U+1042E", "U+1042F", "U+10430", "U+10431", "U+10432", "U+10433", "U+10434", "U+10435", "U+10436",
    "U+10437", "U+10438", "U+10439", "U+1043A", "U+1043B", "U+1043C", "U+1043D", "U+1043E", "U+1043F", "U+10440", "U+10441", "U+10442",
    "U+10443", "U+10444", "U+10445", "U+10446", "U+10447", "U+10448", "U+10449", "U+1044A", "U+1044B", "U+1044C", "U+1044D", "U+1044E",
    "U+1044F", "U+104D8", "U+104D9", "U+104DA", "U+104DB", "U+104DC", "U+104DD", "U+104DE", "U+104DF", "U+104E0", "U+104E1", "U+104E2",
    "U+104E3", "U+104E4", "U+104E5", "U+104E6", "U+104E7", "U+104E8", "U+104E9", "U+104EA", "U+104EB", "U+104EC", "U+104ED", "U+104EE",
    "U+104EF", "U+104F0", "U+104F1", "U+104F2", "U+104F3", "U+104F4", "U+104F5", "U+104F6", "U+104F7", "U+104F8", "U+104F9", "U+104FA",
    "U+104FB", "U+10597", "U+10598", "U+10599", "U+1059A", "U+1059B", "U+1059C", "U+1059D", "U+1059E", "U+1059F", "U+105A0", "U+105A1",
    "U+105A3", "U+105A4", "U+105A5", "U+105A6", "U+105A7", "U+105A8", "U+105A9", "U+105AA", "U+105AB", "U+105AC", "U+105AD", "U+105AE",
    "U+105AF", "U+105B0", "U+105B1", "U+105B3", "U+105B4", "U+105B5", "U+105B6", "U+105B7", "U+105B8", "U+105B9", "U+105BB", "U+105BC",
    "U+10CC0", "U+10CC1", "U+10CC2", "U+10CC3", "U+10CC4", "U+10CC5", "U+10CC6", "U+10CC7", "U+10CC8", "U+10CC9", "U+10CCA", "U+10CCB",
    "U+10CCC", "U+10CCD", "U+10CCE", "U+10CCF", "U+10CD0", "U+10CD1", "U+10CD2", "U+10CD3", "U+10CD4", "U+10CD5", "U+10CD6", "U+10CD7",
    "U+10CD8", "U+10CD9", "U+10CDA", "U+10CDB", "U+10CDC", "U+10CDD", "U+10CDE", "U+10CDF", "U+10CE0", "U+10CE1", "U+10CE2", "U+10CE3",
    "U+10CE4", "U+10CE5", "U+10CE6", "U+10CE7", "U+10CE8", "U+10CE9", "U+10CEA", "U+10CEB", "U+10CEC", "U+10CED", "U+10CEE", "U+10CEF",
    "U+10CF0", "U+10CF1", "U+10CF2", "U+118C0", "U+118C1", "U+118C2", "U+118C3", "U+118C4", "U+118C5", "U+118C6", "U+118C7", "U+118C8",
    "U+118C9", "U+118CA", "U+118CB", "U+118CC", "U+118CD", "U+118CE", "U+118CF", "U+118D0", "U+118D1", "U+118D2", "U+118D3", "U+118D4",
    "U+118D5", "U+118D6", "U+118D7", "U+118D8", "U+118D9", "U+118DA", "U+118DB", "U+118DC", "U+118DD", "U+118DE", "U+118DF", "U+16E60",
    "U+16E61", "U+16E62", "U+16E63", "U+16E64", "U+16E65", "U+16E66", "U+16E67", "U+16E68", "U+16E69", "U+16E6A", "U+16E6B", "U+16E6C",
    "U+16E6D", "U+16E6E", "U+16E6F", "U+16E70", "U+16E71", "U+16E72", "U+16E73", "U+16E74", "U+16E75", "U+16E76", "U+16E77", "U+16E78",
    "U+16E79", "U+16E7A", "U+16E7B", "U+16E7C", "U+16E7D", "U+16E7E", "U+16E7F", "U+1E922", "U+1E923", "U+1E924", "U+1E925", "U+1E926",
    "U+1E927", "U+1E928", "U+1E929", "U+1E92A", "U+1E92B", "U+1E92C", "U+1E92D", "U+1E92E", "U+1E92F", "U+1E930", "U+1E931", "U+1E932",
    "U+1E933", "U+1E934", "U+1E935", "U+1E936", "U+1E937", "U+1E938", "U+1E939", "U+1E93A", "U+1E93B", "U+1E93C", "U+1E93D", "U+1E93E",
    "U+1E93F", "U+1E940", "U+1E941", "U+1E942", "U+1E943"
  >>

CON_MINUSCULA == Rango(LOWER_DE, 1, Len(LOWER_DE))

\* the other characters whose upper case is another character
CON_MAYUSCULA ==
  {
    "a", "b", "c", "d", "e", "f", "g", "h", "i", "j", "k", "l",
    "m", "n", "o", "p", "q", "r", "s", "t", "u", "v", "w", "x",
    "y", "z", "µ", "ß", "à", "á", "â", "ã", "ä", "å", "æ", "ç",
    "è", "é", "ê", "ë", "ì", "í", "î", "ï", "ð", "ñ", "ò", "ó",
    "ô", "õ", "ö", "ø", "ù", "ú", "û", "ü", "ý", "þ", "ÿ", "U+0101",
    "U+0103", "U+0105", "U+0107", "U+0109", "U+010B", "U+010D", "U+010F", "U+0111", "U+0113", "U+0115", "U+0117", "U+0119",
    "U+011B", "U+011D", "U+011F", "U+0121", "U+0123", "U+0125", "U+0127", "U+0129", "U+012B", "U+012D", "U+012F", "U+0131",
    "U+0133", "U+0135", "U+0137", "U+013A", "U+013C", "U+013E", "U+0140", "U+0142", "U+0144", "U+0146", "U+0148", "U+0149",
    "U+014B", "U+014D", "U+014F", "U+0151", "U+0153", "U+0155", "U+0157", "U+0159", "U+015B", "U+015D", "U+015F", "U+0161",
    "U+0163", "U+0165", "U+0167", "U+0169", "U+016B", "U+016D", "U+016F", "U+0171", "U+0173", "U+0175", "U+0177", "U+017A",
    "U+017C", "U+017E", "U+017F", "U+0180", "U+0183", "U+0185", "U+0188", "U+018C", "U+0192", "U+0195", "U+0199", "U+019A",
    "U+019E", "U+01A1", "U+01A3", "U+01A5", "U+01A8", "U+01AD", "U+01B0", "U+01B4", "U+01B6", "U+01B9", "U+01BD", "U+01BF",
    "U+01C6", "U+01C9", "U+01CC", "U+01CE", "U+01D0", "U+01D2", "U+01D4", "U+01D6", "U+01D8", "U+01DA", "U+01DC", "U+01DD",
    "U+01DF", "U+01E1", "U+01E3", "U+01E5", "U+01E7", "U+01E9", "U+01EB", "U+01ED", "U+01EF", "U+01F0", "U+01F3", "U+01F5",
    "U+01F9", "U+01FB", "U+01FD", "U+01FF", "U+0201", "U+0203", "U+0205", "U+0207", "U+0209", "U+020B", "U+020D", "U+020F",
    "U+0211", "U+0213", "U+0215", "U+0217", "U+0219", "U+021B", "U+021D", "U+021F", "U+0223", "U+0225", "U+0227", "U+0229",
    "U+022B", "U+022D", "U+022F", "U+0231", "U+0233", "U+023C", "U+023F", "U+0240", "U+0242", "U+0247", "U+0249", "U+024B",
    "U+024D", "U+024F", "U+0250", "U+0251", "U+0252", "U+0253", "U+0254", "U+0256", "U+0257", "U+0259", "U+025B", "U+025C",
    "U+0260", "U+0261", "U+0263", "U+0265", "U+0266", "U+0268", "U+0269", "U+026A", "U+026B", "U+026C", "U+026F", "U+0271",
    "U+0272", "U+0275", "U+027D", "U+0280", "U+0282", "U+0283", "U+0287", "U+0288", "U+0289", "U+028A", "U+028B", "U+028C",
    "U+0292", "U+029D", "U+029E", "U+0345", "U+0371", "U+0373", "U+0377", "U+037B", "U+037C", "U+037D", "U+0390", "U+03AC",
    "U+03AD", "U+03AE", "U+03AF", "U+03B0", "U+03B1", "U+03B2", "U+03B3", "U+03B4", "U+03B5", "U+03B6", "U+03B7", "U+03B8",
    "U+03B9", "U+03BA", "U+03BB", "U+03BC", "U+03BD", "U+03BE", "U+03BF", "U+03C0", "U+03C1", "U+03C2", "U+03C3", "U+03C4",
    "U+03C5", "U+03C6", "U+03C7", "U+03C8", "U+03C9", "U+03CA", "U+03CB", "U+03CC", "U+03CD", "U+03CE", "U+03D0", "U+03D1",
    "U+03D5", "U+03D6", "U+03D7", "U+03D9", "U+03DB", "U+03DD", "U+03DF", "U+03E1", "U+03E3", "U+03E5", "U+03E7", "U+03E9",
    "U+03EB", "U+03ED", "U+03EF", "U+03F0", "U+03F1", "U+03F2", "U+03F3", "U+03F5", "U+03F8", "U+03FB", "U+0430", "U+0431",
    "U+0432", "U+0433", "U+0434", "U+0435", "U+0436", "U+0437", "U+0438", "U+0439", "U+043A", "U+043B", "U+043C", "U+043D",
    "U+043E", "U+043F", "U+0440", "U+0441", "U+0442", "U+0443", "U+0444", "U+0445", "U+0446", "U+0447", "U+0448", "U+0449",
    "U+044A", "U+044B", "U+044C", "U+044D", "U+044E", "U+044F", "U+0450", "U+0451", "U+0452", "U+0453", "U+0454", "U+0455",
    "U+0456", "U+0457", "U+0458", "U+0459", "U+045A", "U+045B", "U+045C", "U+045D", "U+045E", "U+045F", "U+0461", "U+0463",
    "U+0465", "U+0467", "U+0469", "U+046B", "U+046D", "U+046F", "U+0471", "U+0473", "U+0475", "U+0477", "U+0479", "U+047B",
    "U+047D", "U+047F", "U+0481", "U+048B", "U+048D", "U+048F", "U+0491", "U+0493", "U+0495", "U+0497", "U+0499", "U+049B",
    "U+049D", "U+049F", "U+04A1", "U+04A3", "U+04A5", "U+04A7", "U+04A9", "U+04AB", "U+04AD", "U+04AF", "U+04B1", "U+04B3",
    "U+04B5", "U+04B7", "U+04B9", "U+04BB", "U+04BD", "U+04BF", "U+04C2", "U+04C4", "U+04C6", "U+04C8", "U+04CA", "U+04CC",
    "U+04CE", "U+04CF", "U+04D1", "U+04D3", "U+04D5", "U+04D7", "U+04D9", "U+04DB", "U+04DD", "U+04DF", "U+04E1", "U+04E3",
    "U+04E5", "U+04E7", "U+04E9", "U+04EB", "U+04ED", "U+04EF", "U+04F1", "U+04F3", "U+04F5", "U+04F7", "U+04F9", "U+04FB",
    "U+04FD", "U+04FF", "U+0501", "U+0503", "U+0505", "U+0507", "U+0509", "U+050B", "U+050D", "U+050F", "U+0511", "U+0513",
    "U+0515", "U+0517", "U+0519", "U+051B", "U+051D", "U+051F", "U+0521", "U+0523", "U+0525", "U+0527", "U+0529", "U+052B",
    "U+052D", "U+052F", "U+0561", "U+0562", "U+0563", "U+0564", "U+0565", "U+0566", "U+0567", "U+0568", "U+0569", "U+056A",
    "U+056B", "U+056C", "U+056D", "U+056E", "U+056F", "U+0570", "U+0571", "U+0572", "U+0573", "U+0574", "U+0575", "U+0576",
    "U+0577", "U+0578", "U+0579", "U+057A", "U+057B", "U+057C", "U+057D", "U+057E", "U+057F", "U+0580", "U+0581", "U+0582",
    "U+0583", "U+0584", "U+0585", "U+0586", "U+0587", "U+10D0", "U+10D1", "U+10D2", "U+10D3", "U+10D4", "U+10D5", "U+10D6",
    "U+10D7", "U+10D8", "U+10D9", "U+10DA", "U+10DB", "U+10DC", "U+10DD", "U+10DE", "U+10DF", "U+10E0", "U+10E1", "U+10E2",
    "U+10E3", "U+10E4", "U+10E5", "U+10E6", "U+10E7", "U+10E8", "U+10E9", "U+10EA", "U+10EB", "U+10EC", "U+10ED", "U+10EE",
    "U+10EF", "U+10F0", "U+10F1", "U+10F2", "U+10F3", "U+10F4", "U+10F5", "U+10F6", "U+10F7", "U+10F8", "U+10F9", "U+10FA",
    "U+10FD", "U+10FE", "U+10FF", "U+13F8", "U+13F9", "U+13FA", "U+13FB", "U+13FC", "U+13FD", "U+1C80", "U+1C81", "U+1C82",
    "U+1C83", "U+1C84", "U+1C85", "U+1C86", "U+1C87", "U+1C88", "U+1D79", "U+1D7D", "U+1D8E", "U+1E01", "U+1E03", "U+1E05",
    "U+1E07", "U+1E09", "U+1E0B", "U+1E0D", "U+1E0F", "U+1E11", "U+1E13", "U+1E15", "U+1E17", "U+1E19", "U+1E1B", "U+1E1D",
    "U+1E1F", "U+1E21", "U+1E23", "U+1E25", "U+1E27", "U+1E29", "U+1E2B", "U+1E2D", "U+1E2F", "U+1E31", "U+1E33", "U+1E35",
    "U+1E37", "U+1E39", "U+1E3B", "U+1E3D", "U+1E3F", "U+1E41", "U+1E43", "U+1E45", "U+1E47", "U+1E49", "U+1E4B", "U+1E4D",
    "U+1E4F", "U+1E51", "U+1E53", "U+1E55", "U+1E57", "U+1E59", "U+1E5B", "U+1E5D", "U+1E5F", "U+1E61", "U+1E63", "U+1E65",
    "U+1E67", "U+1E69", "U+1E6B", "U+1E6D", "U+1E6F", "U+1E71", "U+1E73", "U+1E75", "U+1E77", "U+1E79", "U+1E7B", "U+1E7D",
    "U+1E7F", "U+1E81", "U+1E83", "U+1E85", "U+1E87", "U+1E89", "U+1E8B", "U+1E8D", "U+1E8F", "U+1E91", "U+1E93", "U+1E95",
    "U+1E96", "U+1E97", "U+1E98", "U+1E99", "U+1E9A", "U+1E9B", "U+1EA1", "U+1EA3", "U+1EA5", "U+1EA7", "U+1EA9", "U+1EAB",
    "U+1EAD", "U+1EAF", "U+1EB1", "U+1EB3", "U+1EB5", "U+1EB7", "U+1EB9", "U+1EBB", "U+1EBD", "U+1EBF", "U+1EC1", "U+1EC3",
    "U+1EC5", "U+1EC7", "U+1EC9", "U+1ECB", "U+1ECD", "U+1ECF", "U+1ED1", "U+1ED3", "U+1ED5", "U+1ED7", "U+1ED9", "U+1EDB",
    "U+1EDD", "U+1EDF", "U+1EE1", "U+1EE3", "U+1EE5", "U+1EE7", "U+1EE9", "U+1EEB", "U+1EED", "U+1EEF", "U+1EF1", "U+1EF3",
    "U+1EF5", "U+1EF7", "U+1EF9", "U+1EFB", "U+1EFD", "U+1EFF", "U+1F00", "U+1F01", "U+1F02", "U+1F03", "U+1F04", "U+1F05",
    "U+1F06", "U+1F07", "U+1F10", "U+1F11", "U+1F12", "U+1F13", "U+1F14", "U+1F15", "U+1F20", "U+1F21", "U+1F22", "U+1F23",
    "U+1F24", "U+1F25", "U+1F26", "U+1F27", "U+1F30", "U+1F31", "U+1F32", "U+1F33", "U+1F34", "U+1F35", "U+1F36", "U+1F37",
    "U+1F40", "U+1F41", "U+1F42", "U+1F43", "U+1F44", "U+1F45", "U+1F50", "U+1F51", "U+1F52", "U+1F53", "U+1F54", "U+1F55",
    "U+1F56", "U+1F57", "U+1F60", "U+1F61", "U+1F62", "U+1F63", "U+1F64", "U+1F65", "U+1F66", "U+1F67", "U+1F70", "U+1F71",
    "U+1F72", "U+1F73", "U+1F74", "U+1F75", "U+1F76", "U+1F77", "U+1F78", "U+1F79", "U+1F7A", "U+1F7B", "U+1F7C", "U+1F7D",
    "U+1F80", "U+1F81", "U+1F82", "U+1F83", "U+1F84", "U+1F85", "U+1F86", "U+1F87", "U+1F90", "U+1F91", "U+1F92", "U+1F93",
    "U+1F94", "U+1F95", "U+1F96", "U+1F97", "U+1FA0", "U+1FA1", "U+1FA2", "U+1FA3", "U+1FA4", "U+1FA5", "U+1FA6", "U+1FA7",
    "U+1FB0", "U+1FB1", "U+1FB2", "U+1FB3", "U+1FB4", "U+1FB6", "U+1FB7", "U+1FBE", "U+1FC2", "U+1FC3", "U+1FC4", "U+1FC6",
    "U+1FC7", "U+1FD0", "U+1FD1", "U+1FD2", "U+1FD3", "U+1FD6", "U+1FD7", "U+1FE0", "U+1FE1", "U+1FE2", "U+1FE3", "U+1FE4",
    "U+1FE5", "U+1FE6", "U+1FE7", "U+1FF2", "U+1FF3", "U+1FF4", "U+1FF6", "U+1FF7", "U+214E", "U+2170", "U+2171", "U+2172",
    "U+2173", "U+2174", "U+2175", "U+2176", "U+2177", "U+2178", "U+2179", "U+217A", "U+217B", "U+217C", "U+217D", "U+217E",
    "U+217F", "U+2184", "U+24D0", "U+24D1", "U+24D2", "U+24D3", "U+24D4", "U+24D5", "U+24D6", "U+24D7", "U+24D8", "U+24D9",
    "U+24DA", "U+24DB", "U+24DC", "U+24DD", "U+24DE", "U+24DF", "U+24E0", "U+24E1", "U+24E2", "U+24E3", "U+24E4", "U+24E5",
    "U+24E6", "U+24E7", "U+24E8", "U+24E9", "U+2C30", "U+2C31", "U+2C32", "U+2C33", "U+2C34", "U+2C35", "U+2C36", "U+2C37",
    "U+2C38", "U+2C39", "U+2C3A", "U+2C3B", "U+2C3C", "U+2C3D", "U+2C3E", "U+2C3F", "U+2C40", "U+2C41", "U+2C42", "U+2C43",
    "U+2C44", "U+2C45", "U+2C46", "U+2C47", "U+2C48", "U+2C49", "U+2C4A", "U+2C4B", "U+2C4C", "U+2C4D", "U+2C4E", "U+2C4F",
    "U+2C50", "U+2C51", "U+2C52", "U+2C53", "U+2C54", "U+2C55", "U+2C56", "U+2C57", "U+2C58", "U+2C59", "U+2C5A", "U+2C5B",
    "U+2C5C", "U+2C5D", "U+2C5E", "U+2C5F", "U+2C61", "U+2C65", "U+2C66", "U+2C68", "U+2C6A", "U+2C6C", "U+2C73", "U+2C76",
    "U+2C81", "U+2C83", "U+2C85", "U+2C87", "U+2C89", "U+2C8B", "U+2C8D", "U+2C8F", "U+2C91", "U+2C93", "U+2C95", "U+2C97",
    "U+2C99", "U+2C9B", "U+2C9D", "U+2C9F", "U+2CA1", "U+2CA3", "U+2CA5", "U+2CA7", "U+2CA9", "U+2CAB", "U+2CAD", "U+2CAF",
    "U+2CB1", "U+2CB3", "U+2CB5", "U+2CB7", "U+2CB9", "U+2CBB", "U+2CBD", "U+2CBF", "U+2CC1", "U+2CC3", "U+2CC5", "U+2CC7",
    "U+2CC9", "U+2CCB", "U+2CCD", "U+2CCF", "U+2CD1", "U+2CD3", "U+2CD5", "U+2CD7", "U+2CD9", "U+2CDB", "U+2CDD", "U+2CDF",
    "U+2CE1", "U+2CE3", "U+2CEC", "U+2CEE", "U+2CF3", "U+2D00", "U+2D01", "U+2D02", "U+2D03", "U+2D04", "U+2D05", "U+2D06",
    "U+2D07", "U+2D08", "U+2D09", "U+2D0A", "U+2D0B", "U+2D0C", "U+2D0D", "U+2D0E", "U+2D0F", "U+2D10", "U+2D11", "U+2D12",
    "U+2D13", "U+2D14", "U+2D15", "U+2D16", "U+2D17", "U+2D18", "U+2D19", "U+2D1A", "U+2D1B", "U+2D1C", "U+2D1D", "U+2D1E",
    "U+2D1F", "U+2D20", "U+2D21", "U+2D22", "U+2D23", "U+2D24", "U+2D25", "U+2D27", "U+2D2D", "U+A641", "U+A643", "U+A645",
    "U+A647", "U+A649", "U+A64B", "U+A64D", "U+A64F", "U+A651", "U+A653", "U+A655", "U+A657", "U+A659", "U+A65B", "U+A65D",
    "U+A65F", "U+A661", "U+A663", "U+A665", "U+A667", "U+A669", "U+A66B", "U+A66D", "U+A681", "U+A683", "U+A685", "U+A687",
    "U+A689", "U+A68B", "U+A68D", "U+A68F", "U+A691", "U+A693", "U+A695", "U+A697", "U+A699", "U+A69B", "U+A723", "U+A725",
    "U+A727", "U+A729", "U+A72B", "U+A72D", "U+A72F", "U+A733", "U+A735", "U+A737", "U+A739", "U+A73B", "U+A73D", "U+A73F",
    "U+A741", "U+A743", "U+A745", "U+A747", "U+A749", "U+A74B", "U+A74D", "U+A74F", "U+A751", "U+A753", "U+A755", "U+A757",
    "U+A759", "U+A75B", "U+A75D", "U+A75F", "U+A761", "U+A763", "U+A765", "U+A767", "U+A769", "U+A76B", "U+A76D", "U+A76F",
    "U+A77A", "U+A77C", "U+A77F", "U+A781", "U+A783", "U+A785", "U+A787", "U+A78C", "U+A791", "U+A793", "U+A794", "U+A797",
    "U+A799", "U+A79B", "U+A79D", "U+A79F", "U+A7A1", "U+A7A3", "U+A7A5", "U+A7A7", "U+A7A9", "U+A7B5", "U+A7B7", "U+A7B9",
    "U+A7BB", "U+A7BD", "U+A7BF", "U+A7C1", "U+A7C3", "U+A7C8", "U+A7CA", "U+A7D1", "U+A7D7", "U+A7D9", "U+A7F6", "U+AB53",
    "U+AB70", "U+AB71", "U+AB72", "U+AB73", "U+AB74", "U+AB75", "U+AB76", "U+AB77", "U+AB78", "U+AB79", "U+AB7A", "U+AB7B",
    "U+AB7C", "U+AB7D", "U+AB7E", "U+AB7F", "U+AB80", "U+AB81", "U+AB82", "U+AB83", "U+AB84", "U+AB85", "U+AB86", "U+AB87",
    "U+AB88", "U+AB89", "U+AB8A", "U+AB8B", "U+AB8C", "U+AB8D", "U+AB8E", "U+AB8F", "U+AB90", "U+AB91", "U+AB92", "U+AB93",
    "U+AB94", "U+AB95", "U+AB96", "U+AB97", "U+AB98", "U+AB99", "U+AB9A", "U+AB9B", "U+AB9C", "U+AB9D", "U+AB9E", "U+AB9F",
    "U+ABA0", "U+ABA1", "U+ABA2", "U+ABA3", "U+ABA4", "U+ABA5", "U+ABA6", "U+ABA7", "U+ABA8", "U+ABA9", "U+ABAA", "U+ABAB",
    "U+ABAC", "U+ABAD", "U+ABAE", "U+ABAF", "U+ABB0", "U+ABB1", "U+ABB2", "U+ABB3", "U+ABB4", "U+ABB5", "U+ABB6", "U+ABB7",
    "U+ABB8", "U+ABB9", "U+ABBA", "U+ABBB", "U+ABBC", "U+ABBD", "U+ABBE", "U+ABBF", "U+FB00", "U+FB01", "U+FB02", "U+FB03",
    "U+FB04", "U+FB05", "U+FB06", "U+FB13", "U+FB14", "U+FB15", "U+FB16", "U+FB17", "U+FF41", "U+FF42", "U+FF43", "U+FF44",
    "U+FF45", "U+FF46", "U+FF47", "U+FF48", "U+FF49", "U+FF4A", "U+FF4B", "U+FF4C", "U+FF4D", "U+FF4E", "U+FF4F", "U+FF50",
    "U+FF51", "U+FF52", "U+FF53", "U+FF54", "U+FF55", "U+FF56", "U+FF57", "U+FF58", "U+FF59", "U+FF5A", "U+10428", "U+10429",
    "U+1042A", "U+1042B", "U+1042C", "U+1042D", "U+1042E", "U+1042F", "U+10430", "U+10431", "U+10432", "U+10433", "U+10434", "U+10435",
    "U+10436", "U+10437", "U+10438", "U+10439", "U+1043A", "U+1043B", "U+1043C", "U+1043D", "U+1043E", "U+1043F", "U+10440", "U+10441",
    "U+10442", "U+10443", "U+10444", "U+10445", "U+10446", "U+10447", "U+10448", "U+10449", "U+1044A", "U+1044B", "U+1044C", "U+1044D",
    "U+1044E", "U+1044F", "U+104D8", "U+104D9", "U+104DA", "U+104DB", "U+104DC", "U+104DD", "U+104DE", "U+104DF", "U+104E0", "U+104E1",
    "U+104E2", "U+104E3", "U+104E4", "U+104E5", "U+104E6", "U+104E7", "U+104E8", "U+104E9", "U+104EA", "U+104EB", "U+104EC", "U+104ED",
    "U+104EE", "U+104EF", "U+104F0", "U+104F1", "U+104F2", "U+104F3", "U+104F4", "U+104F5", "U+104F6", "U+104F7", "U+104F8", "U+104F9",
    "U+104FA", "U+104FB", "U+10597", "U+10598", "U+10599", "U+1059A", "U+1059B", "U+1059C", "U+1059D", "U+1059E", "U+1059F", "U+105A0",
    "U+105A1", "U+105A3", "U+105A4", "U+105A5", "U+105A6", "U+105A7", "U+105A8", "U+105A9", "U+105AA", "U+105AB", "U+105AC", "U+105AD",
    "U+105AE", "U+105AF", "U+105B0", "U+105B1", "U+105B3", "U+105B4", "U+105B5", "U+105B6", "U+105B7", "U+105B8", "U+105B9", "U+105BB",
    "U+105BC", "U+10CC0", "U+10CC1", "U+10CC2", "U+10CC3", "U+10CC4", "U+10CC5", "U+10CC6", "U+10CC7", "U+10CC8", "U+10CC9", "U+10CCA",
    "U+10CCB", "U+10CCC", "U+10CCD", "U+10CCE", "U+10CCF", "U+10CD0", "U+10CD1", "U+10CD2", "U+10CD3", "U+10CD4", "U+10CD5", "U+10CD6",
    "U+10CD7", "U+10CD8", "U+10CD9", "U+10CDA", "U+10CDB", "U+10CDC", "U+10CDD", "U+10CDE", "U+10CDF", "U+10CE0", "U+10CE1", "U+10CE2",
    "U+10CE3", "U+10CE4", "U+10CE5", "U+10CE6", "U+10CE7", "U+10CE8", "U+10CE9", "U+10CEA", "U+10CEB", "U+10CEC", "U+10CED", "U+10CEE",
    "U+10CEF", "U+10CF0", "U+10CF1", "U+10CF2", "U+118C0", "U+118C1", "U+118C2", "U+118C3", "U+118C4", "U+118C5", "U+118C6", "U+118C7",
    "U+118C8", "U+118C9", "U+118CA", "U+118CB", "U+118CC", "U+118CD", "U+118CE", "U+118CF", "U+118D0", "U+118D1", "U+118D2", "U+118D3",
    "U+118D4", "U+118D5", "U+118D6", "U+118D7", "U+118D8", "U+118D9", "U+118DA", "U+118DB", "U+118DC", "U+118DD", "U+118DE", "U+118DF",
    "U+16E60", "U+16E61", "U+16E62", "U+16E63", "U+16E64", "U+16E65", "U+16E66", "U+16E67", "U+16E68", "U+16E69", "U+16E6A", "U+16E6B",
    "U+16E6C", "U+16E6D", "U+16E6E", "U+16E6F", "U+16E70", "U+16E71", "U+16E72", "U+16E73", "U+16E74", "U+16E75", "U+16E76", "U+16E77",
    "U+16E78", "U+16E79", "U+16E7A", "U+16E7B", "U+16E7C", "U+16E7D", "U+16E7E", "U+16E7F", "U+1E922", "U+1E923", "U+1E924", "U+1E925",
    "U+1E926", "U+1E927", "U+1E928", "U+1E929", "U+1E92A", "U+1E92B", "U+1E92C", "U+1E92D", "U+1E92E", "U+1E92F", "U+1E930", "U+1E931",
    "U+1E932", "U+1E933", "U+1E934", "U+1E935", "U+1E936", "U+1E937", "U+1E938", "U+1E939", "U+1E93A", "U+1E93B", "U+1E93C", "U+1E93D",
    "U+1E93E", "U+1E93F", "U+1E940", "U+1E941", "U+1E942", "U+1E943"
  }

\* the cased characters without a case of their own to go to, those that
\* are case-ignorable left out
OTROS_CASED ==
  {
    "ª", "º", "U+0138", "U+018D", "U+019B", "U+01AA", "U+01AB", "U+01BA", "U+01BE", "U+0221", "U+0234", "U+0235",
    "U+0236", "U+0237", "U+0238", "U+0239", "U+0255", "U+0258", "U+025A", "U+025D", "U+025E", "U+025F", "U+0262", "U+0264",
    "U+0267", "U+026D", "U+026E", "U+0270", "U+0273", "U+0274", "U+0276", "U+0277", "U+0278", "U+0279", "U+027A", "U+027B",
    "U+027C", "U+027E", "U+027F", "U+0281", "U+0284", "U+0285", "U+0286", "U+028D", "U+028E", "U+028F", "U+0290", "U+0291",
    "U+0293", "U+0295", "U+0296", "U+0297", "U+0298", "U+0299", "U+029A", "U+029B", "U+029C", "U+029F", "U+02A0", "U+02A1",
    "U+02A2", "U+02A3", "U+02A4", "U+02A5", "U+02A6", "U+02A7", "U+02A8", "U+02A9", "U+02AA", "U+02AB", "U+02AC", "U+02AD",
    "U+02AE", "U+02AF", "U+03D2", "U+03D3", "U+03D4", "U+03FC", "U+0560", "U+0588", "U+1D00", "U+1D01", "U+1D02", "U+1D03",
    "U+1D04", "U+1D05", "U+1D06", "U+1D07", "U+1D08", "U+1D09", "U+1D0A", "U+1D0B", "U+1D0C", "U+1D0D", "U+1D0E", "U+1D0F",
    "U+1D10", "U+1D11", "U+1D12", "U+1D13", "U+1D14", "U+1D15", "U+1D16", "U+1D17", "U+1D18", "U+1D19", "U+1D1A", "U+1D1B",
    "U+1D1C", "U+1D1D", "U+1D1E", "U+1D1F", "U+1D20", "U+1D21", "U+1D22", "U+1D23", "U+1D24", "U+1D25", "U+1D26", "U+1D27",
    "U+1D28", "U+1D29", "U+1D2A", "U+1D2B", "U+1D6B", "U+1D6C", "U+1D6D", "U+1D6E", "U+1D6F", "U+1D70", "U+1D71", "U+1D72",
    "U+1D73", "U+1D74", "U+1D75", "U+1D76", "U+1D77", "U+1D7A", "U+1D7B", "U+1D7C", "U+1D7E", "U+1D7F", "U+1D80", "U+1D81",
    "U+1D82", "U+1D83", "U+1D84", "U+1D85", "U+1D86", "U+1D87", "U+1D88", "U+1D89", "U+1D8A", "U+1D8B", "U+1D8C", "U+1D8D",
    "U+1D8F", "U+1D90", "U+1D91", "U+1D92", "U+1D93", "U+1D94", "U+1D95", "U+1D96", "U+1D97", "U+1D98", "U+1D99", "U+1D9A",
    "U+1E9C", "U+1E9D", "U+1E9F", "U+2102", "U+2107", "U+210A", "U+210B", "U+210C", "U+210D", "U+210E", "U+210F", "U+2110",
    "U+2111", "U+2112", "U+2113", "U+2115", "U+2119", "U+211A", "U+211B", "U+211C", "U+211D", "U+2124", "U+2128", "U+212C",
    "U+212D", "U+212F", "U+2130", "U+2131", "U+2133", "U+2134", "U+2139", "U+213C", "U+213D", "U+213E", "U+213F", "U+2145",
    "U+2146", "U+2147", "U+2148", "U+2149", "U+2C71", "U+2C74", "U+2C77", "U+2C78", "U+2C79", "U+2C7A", "U+2C7B", "U+2CE4",
    "U+A730", "U+A731", "U+A771", "U+A772", "U+A773", "U+A774", "U+A775", "U+A776", "U+A777", "U+A778", "U+A78E", "U+A795",
    "U+A7AF", "U+A7D3", "U+A7D5", "U+A7FA", "U+AB30", "U+AB31", "U+AB32", "U+AB33", "U+AB34", "U+AB35", "U+AB36", "U+AB37",
    "U+AB38", "U+AB39", "U+AB3A", "U+AB3B", "U+AB3C", "U+AB3D", "U+AB3E", "U+AB3F", "U+AB40", "U+AB41", "U+AB42", "U+AB43",
    "U+AB44", "U+AB45", "U+AB46", "U+AB47", "U+AB48", "U+AB49", "U+AB4A", "U+AB4B", "U+AB4C", "U+AB4D", "U+AB4E", "U+AB4F",
    "U+AB50", "U+AB51", "U+AB52", "U+AB54", "U+AB55", "U+AB56", "U+AB57", "U+AB58", "U+AB59", "U+AB5A", "U+AB60", "U+AB61",
    "U+AB62", "U+AB63", "U+AB64", "U+AB65", "U+AB66", "U+AB67", "U+AB68", "U+1D400", "U+1D401", "U+1D402", "U+1D403", "U+1D404",
    "U+1D405", "U+1D406", "U+1D407", "U+1D408", "U+1D409", "U+1D40A", "U+1D40B", "U+1D40C", "U+1D40D", "U+1D40E", "U+1D40F", "U+1D410",
    "U+1D411", "U+1D412", "U+1D413", "U+1D414", "U+1D415", "U+1D416", "U+1D417", "U+1D418", "U+1D419", "U+1D41A", "U+1D41B", "U+1D41C",
    "U+1D41D", "U+1D41E", "U+1D41F", "U+1D420", "U+1D421", "U+1D422", "U+1D423", "U+1D424", "U+1D425", "U+1D426", "U+1D427", "U+1D428",
    "U+1D429", "U+1D42A", "U+1D42B", "U+1D42C", "U+1D42D", "U+1D42E", "U+1D42F", "U+1D430", "U+1D431", "U+1D432", "U+1D433", "U+1D434",
    "U+1D435", "U+1D436", "U+1D437", "U+1D438", "U+1D439", "U+1D43A", "U+1D43B", "U+1D43C", "U+1D43D", "U+1D43E", "U+1D43F", "U+1D440",
    "U+1D441", "U+1D442", "U+1D443", "U+1D444", "U+1D445", "U+1D446", "U+1D447", "U+1D448", "U+1D449", "U+1D44A", "U+1D44B", "U+1D44C",
    "U+1D44D", "U+1D44E", "U+1D44F", "U+1D450", "U+1D451", "U+1D452", "U+1D453", "U+1D454", "U+1D456", "U+1D457", "U+1D458", "U+1D459",
    "U+1D45A", "U+1D45B", "U+1D45C", "U+1D45D", "U+1D45E", "U+1D45F", "U+1D460", "U+1D461", "U+1D462", "U+1D463", "U+1D464", "U+1D465",
    "U+1D466", "U+1D467", "U+1D468", "U+1D469", "U+1D46A", "U+1D46B", "U+1D46C", "U+1D46D", "U+1D46E", "U+1D46F", "U+1D470", "U+1D471",
    "U+1D472", "U+1D473", "U+1D474", "U+1D475", "U+1D476", "U+1D477", "U+1D478", "U+1D479", "U+1D47A", "U+1D47B", "U+1D47C", "U+1D47D",
    "U+1D47E", "U+1D47F", "U+1D480", "U+1D481", "U+1D482", "U+1D483", "U+1D484", "U+1D485", "U+1D486", "U+1D487", "U+1D488", "U+1D489",
    "U+1D48A", "U+1D48B", "U+1D48C", "U+1D48D", "U+1D48E", "U+1D48F", "U+1D490", "U+1D491", "U+1D492", "U+1D493", "U+1D494", "U+1D495",
    "U+1D496", "U+1D497", "U+1D498", "U+1D499", "U+1D49A", "U+1D49B", "U+1D49C", "U+1D49E", "U+1D49F", "U+1D4A2", "U+1D4A5", "U+1D4A6",
    "U+1D4A9", "U+1D4AA", "U+1D4AB", "U+1D4AC", "U+1D4AE", "U+1D4AF", "U+1D4B0", "U+1D4B1", "U+1D4B2", "U+1D4B3", "U+1D4B4", "U+1D4B5",
    "U+1D4B6", "U+1D4B7", "U+1D4B8", "U+1D4B9", "U+1D4BB", "U+1D4BD", "U+1D4BE", "U+1D4BF", "U+1D4C0", "U+1D4C1", "U+1D4C2", "U+1D4C3",
    "U+1D4C5", "U+1D4C6", "U+1D4C7", "U+1D4C8", "U+1D4C9", "U+1D4CA", "U+1D4CB", "U+1D4CC", "U+1D4CD", "U+1D4CE", "U+1D4CF", "U+1D4D0",
    "U+1D4D1", "U+1D4D2", "U+1D4D3", "U+1D4D4", "U+1D4D5", "U+1D4D6", "U+1D4D7", "U+1D4D8", "U+1D4D9", "U+1D4DA", "U+1D4DB", "U+1D4DC",
    "U+1D4DD", "U+1D4DE", "U+1D4DF", "U+1D4E0", "U+1D4E1", "U+1D4E2", "U+1D4E3", "U+1D4E4", "U+1D4E5", "U+1D4E6", "U+1D4E7", "U+1D4E8",
    "U+1D4E9", "U+1D4EA", "U+1D4EB", "U+1D4EC", "U+1D4ED", "U+1D4EE", "U+1D4EF", "U+1D4F0", "U+1D4F1", "U+1D4F2", "U+1D4F3", "U+1D4F4",
    "U+1D4F5", "U+1D4F6", "U+1D4F7", "U+1D4F8", "U+1D4F9", "U+1D4FA", "U+1D4FB", "U+1D4FC", "U+1D4FD", "U+1D4FE", "U+1D4FF", "U+1D500",
    "U+1D501", "U+1D502", "U+1D503", "U+1D504", "U+1D505", "U+1D507", "U+1D508", "U+1D509", "U+1D50A", "U+1D50D", "U+1D50E", "U+1D50F",
    "U+1D510", "U+1D511", "U+1D512", "U+1D513", "U+1D514", "U+1D516", "U+1D517", "U+1D518", "U+1D519", "U+1D51A", "U+1D51B", "U+1D51C",
    "U+1D51E", "U+1D51F", "U+1D520", "U+1D521", "U+1D522", "U+1D523", "U+1D524", "U+1D525", "U+1D526", "U+1D527", "U+1D528", "U+1D529",
    "U+1D52A", "U+1D52B", "U+1D52C", "U+1D52D", "U+1D52E", "U+1D52F", "U+1D530", "U+1D531", "U+1D532", "U+1D533", "U+1D534", "U+1D535",
    "U+1D536", "U+1D537", "U+1D538", "U+1D539", "U+1D53B", "U+1D53C", "U+1D53D", "U+1D53E", "U+1D540", "U+1D541", "U+1D542", "U+1D543",
    "U+1D544", "U+1D546", "U+1D54A", "U+1D54B", "U+1D54C", "U+1D54D", "U+1D54E", "U+1D54F", "U+1D550", "U+1D552", "U+1D553", "U+1D554",
    "U+1D555", "U+1D556", "U+1D557", "U+1D558", "U+1D559", "U+1D55A", "U+1D55B", "U+1D55C", "U+1D55D", "U+1D55E", "U+1D55F", "U+1D560",
    "U+1D561", "U+1D562", "U+1D563", "U+1D564", "U+1D565", "U+1D566", "U+1D567", "U+1D568", "U+1D569", "U+1D56A", "U+1D56B", "U+1D56C",
    "U+1D56D", "U+1D56E", "U+1D56F", "U+1D570", "U+1D571", "U+1D572", "U+1D573", "U+1D574", "U+1D575", "U+1D576", "U+1D577", "U+1D578",
    "U+1D579", "U+1D57A", "U+1D57B", "U+1D57C", "U+1D57D", "U+1D57E", "U+1D57F", "U+1D580", "U+1D581", "U+1D582", "U+1D583", "U+1D584",
    "U+1D585", "U+1D586", "U+1D587", "U+1D588", "U+1D589", "U+1D58A", "U+1D58B", "U+1D58C", "U+1D58D", "U+1D58E", "U+1D58F", "U+1D590",
    "U+1D591", "U+1D592", "U+1D593", "U+1D594", "U+1D595", "U+1D596", "U+1D597", "U+1D598", "U+1D599", "U+1D59A", "U+1D59B", "U+1D59C",
    "U+1D59D", "U+1D59E", "U+1D59F", "U+1D5A0", "U+1D5A1", "U+1D5A2", "U+1D5A3", "U+1D5A4", "U+1D5A5", "U+1D5A6", "U+1D5A7", "U+1D5A8",
    "U+1D5A9", "U+1D5AA", "U+1D5AB", "U+1D5AC", "U+1D5AD", "U+1D5AE", "U+1D5AF", "U+1D5B0", "U+1D5B1", "U+1D5B2", "U+1D5B3", "U+1D5B4",
    "U+1D5B5", "U+1D5B6", "U+1D5B7", "U+1D5B8", "U+1D5B9", "U+1D5BA", "U+1D5BB", "U+1D5BC", "U+1D5BD", "U+1D5BE", "U+1D5BF", "U+1D5C0",
    "U+1D5C1", "U+1D5C2", "U+1D5C3", "U+1D5C4", "U+1D5C5", "U+1D5C6", "U+1D5C7", "U+1D5C8", "U+1D5C9", "U+1D5CA", "U+1D5CB", "U+1D5CC",
    "U+1D5CD", "U+1D5CE", "U+1D5CF", "U+1D5D0", "U+1D5D1", "U+1D5D2", "U+1D5D3", "U+1D5D4", "U+1D5D5", "U+1D5D6", "U+1D5D7", "U+1D5D8",
    "U+1D5D9", "U+1D5DA", "U+1D5DB", "U+1D5DC", "U+1D5DD", "U+1D5DE", "U+1D5DF", "U+1D5E0", "U+1D5E1", "U+1D5E2", "U+1D5E3", "U+1D5E4",
    "U+1D5E5", "U+1D5E6", "U+1D5E7", "U+1D5E8", "U+1D5E9", "U+1D5EA", "U+1D5EB", "U+1D5EC", "U+1D5ED", "U+1D5EE", "U+1D5EF", "U+1D5F0",
    "U+1D5F1", "U+1D5F2", "U+1D5F3", "U+1D5F4", "U+1D5F5", "U+1D5F6", "U+1D5F7", "U+1D5F8", "U+1D5F9", "U+1D5FA", "U+1D5FB", "U+1D5FC",
    "U+1D5FD", "U+1D5FE", "U+1D5FF", "U+1D600", "U+1D601", "U+1D602", "U+1D603", "U+1D604", "U+1D605", "U+1D606", "U+1D607", "U+1D608",
    "U+1D609", "U+1D60A", "U+1D60B", "U+1D60C", "U+1D60D", "U+1D60E", "U+1D60F", "U+1D610", "U+1D611", "U+1D612", "U+1D613", "U+1D614",
    "U+1D615", "U+1D616", "U+1D617", "U+1D618", "U+1D619", "U+1D61A", "U+1D61B", "U+1D61C", "U+1D61D", "U+1D61E", "U+1D61F", "U+1D620",
    "U+1D621", "U+1D622", "U+1D623", "U+1D624", "U+1D625", "U+1D626", "U+1D627", "U+1D628", "U+1D629", "U+1D62A", "U+1D62B", "U+1D62C",
    "U+1D62D", "U+1D62E", "U+1D62F", "U+1D630", "U+1D631", "U+1D632", "U+1D633", "U+1D634", "U+1D635", "U+1D636", "U+1D637", "U+1D638",
    "U+1D639", "U+1D63A", "U+1D63B", "U+1D63C", "U+1D63D", "U+1D63E", "U+1D63F", "U+1D640", "U+1D641", "U+1D642", "U+1D643", "U+1D644",
    "U+1D645", "U+1D646", "U+1D647", "U+1D648", "U+1D649", "U+1D64A", "U+1D64B", "U+1D64C", "U+1D64D", "U+1D64E", "U+1D64F", "U+1D650",
    "U+1D651", "U+1D652", "U+1D653", "U+1D654", "U+1D655", "U+1D656", "U+1D657", "U+1D658", "U+1D659", "U+1D65A", "U+1D65B", "U+1D65C",
    "U+1D65D", "U+1D65E", "U+1D65F", "U+1D660", "U+1D661", "U+1D662", "U+1D663", "U+1D664", "U+1D665", "U+1D666", "U+1D667", "U+1D668",
    "U+1D669", "U+1D66A", "U+1D66B", "U+1D66C", "U+1D66D", "U+1D66E", "U+1D66F", "U+1D670", "U+1D671", "U+1D672", "U+1D673", "U+1D674",
    "U+1D675", "U+1D676", "U+1D677", "U+1D678", "U+1D679", "U+1D67A", "U+1D67B", "U+1D67C", "U+1D67D", "U+1D67E", "U+1D67F", "U+1D680",
    "U+1D681", "U+1D682", "U+1D683", "U+1D684", "U+1D685", "U+1D686", "U+1D687", "U+1D688", "U+1D689", "U+1D68A", "U+1D68B", "U+1D68C",
    "U+1D68D", "U+1D68E", "U+1D68F", "U+1D690", "U+1D691", "U+1D692", "U+1D693", "U+1D694", "U+1D695", "U+1D696", "U+1D697", "U+1D698",
    "U+1D699", "U+1D69A", "U+1D69B", "U+1D69C", "U+1D69D", "U+1D69E", "U+1D69F", "U+1D6A0", "U+1D6A1", "U+1D6A2", "U+1D6A3", "U+1D6A4",
    "U+1D6A5", "U+1D6A8", "U+1D6A9", "U+1D6AA", "U+1D6AB", "U+1D6AC", "U+1D6AD", "U+1D6AE", "U+1D6AF", "U+1D6B0", "U+1D6B1", "U+1D6B2",
    "U+1D6B3", "U+1D6B4", "U+1D6B5", "U+1D6B6", "U+1D6B7", "U+1D6B8", "U+1D6B9", "U+1D6BA", "U+1D6BB", "U+1D6BC", "U+1D6BD", "U+1D6BE",
    "U+1D6BF", "U+1D6C0", "U+1D6C2", "U+1D6C3", "U+1D6C4", "U+1D6C5", "U+1D6C6", "U+1D6C7", "U+1D6C8", "U+1D6C9", "U+1D6CA", "U+1D6CB",
    "U+1D6CC", "U+1D6CD", "U+1D6CE", "U+1D6CF", "U+1D6D0", "U+1D6D1", "U+1D6D2", "U+1D6D3", "U+1D6D4", "U+1D6D5", "U+1D6D6", "U+1D6D7",
    "U+1D6D8", "U+1D6D9", "U+1D6DA", "U+1D6DC", "U+1D6DD", "U+1D6DE", "U+1D6DF", "U+1D6E0", "U+1D6E1", "U+1D6E2", "U+1D6E3", "U+1D6E4",
    "U+1D6E5", "U+1D6E6", "U+1D6E7", "U+1D6E8", "U+1D6E9", "U+1D6EA", "U+1D6EB", "U+1D6EC", "U+1D6ED", "U+1D6EE", "U+1D6EF", "U+1D6F0",
    "U+1D6F1", "U+1D6F2", "U+1D6F3", "U+1D6F4", "U+1D6F5", "U+1D6F6", "U+1D6F7", "U+1D6F8", "U+1D6F9", "U+1D6FA", "U+1D6FC", "U+1D6FD",
    "U+1D6FE", "U+1D6FF", "U+1D700", "U+1D701", "U+1D702", "U+1D703", "U+1D704", "U+1D705", "U+1D706", "U+1D707", "U+1D708", "U+1D709",
    "U+1D70A", "U+1D70B", "U+1D70C", "U+1D70D", "U+1D70E", "U+1D70F", "U+1D710", "U+1D711", "U+1D712", "U+1D713", "U+1D714", "U+1D716",
    "U+1D717", "U+1D718", "U+1D719", "U+1D71A", "U+1D71B", "U+1D71C", "U+1D71D", "U+1D71E", "U+1D71F", "U+1D720", "U+1D721", "U+1D722",
    "U+1D723", "U+1D724", "U+1D725", "U+1D726", "U+1D727", "U+1D728", "U+1D729", "U+1D72A", "U+1D72B", "U+1D72C", "U+1D72D", "U+1D72E",
    "U+1D72F", "U+1D730", "U+1D731", "U+1D732", "U+1D733", "U+1D734", "U+1D736", "U+1D737", "U+1D738", "U+1D739", "U+1D73A", "U+1D73B",
    "U+1D73C", "U+1D73D", "U+1D73E", "U+1D73F", "U+1D740", "U+1D741", "U+1D742", "U+1D743", "U+1D744", "U+1D745", "U+1D746", "U+1D747",
    "U+1D748", "U+1D749", "U+1D74A", "U+1D74B", "U+1D74C", "U+1D74D", "U+1D74E", "U+1D750", "U+1D751", "U+1D752", "U+1D753", "U+1D754",
    "U+1D755", "U+1D756", "U+1D757", "U+1D758", "U+1D759", "U+1D75A", "U+1D75B", "U+1D75C", "U+1D75D", "U+1D75E", "U+1D75F", "U+1D760",
    "U+1D761", "U+1D762", "U+1D763", "U+1D764", "U+1D765", "U+1D766", "U+1D767", "U+1D768", "U+1D769", "U+1D76A", "U+1D76B", "U+1D76C",
    "U+1D76D", "U+1D76E", "U+1D770", "U+1D771", "U+1D772", "U+1D773", "U+1D774", "U+1D775", "U+1D776", "U+1D777", "U+1D778", "U+1D779",
    "U+1D77A", "U+1D77B", "U+1D77C", "U+1D77D", "U+1D77E", "U+1D77F", "U+1D780", "U+1D781", "U+1D782", "U+1D783", "U+1D784", "U+1D785",
    "U+1D786", "U+1D787", "U+1D788", "U+1D78A", "U+1D78B", "U+1D78C", "U+1D78D", "U+1D78E", "U+1D78F", "U+1D790", "U+1D791", "U+1D792",
    "U+1D793", "U+1D794", "U+1D795", "U+1D796", "U+1D797", "U+1D798", "U+1D799", "U+1D79A", "U+1D79B", "U+1D79C", "U+1D79D", "U+1D79E",
    "U+1D79F", "U+1D7A0", "U+1D7A1", "U+1D7A2", "U+1D7A3", "U+1D7A4", "U+1D7A5", "U+1D7A6", "U+1D7A7", "U+1D7A8", "U+1D7AA", "U+1D7AB",
    "U+1D7AC", "U+1D7AD", "U+1D7AE", "U+1D7AF", "U+1D7B0", "U+1D7B1", "U+1D7B2", "U+1D7B3", "U+1D7B4", "U+1D7B5", "U+1D7B6", "U+1D7B7",
    "U+1D7B8", "U+1D7B9", "U+1D7BA", "U+1D7BB", "U+1D7BC", "U+1D7BD", "U+1D7BE", "U+1D7BF", "U+1D7C0", "U+1D7C1", "U+1D7C2", "U+1D7C4",
    "U+1D7C5", "U+1D7C6", "U+1D7C7", "U+1D7C8", "U+1D7C9", "U+1D7CA", "U+1D7CB", "U+1DF00", "U+1DF01", "U+1DF02", "U+1DF03", "U+1DF04",
    "U+1DF05", "U+1DF06", "U+1DF07", "U+1DF08", "U+1DF09", "U+1DF0B", "U+1DF0C", "U+1DF0D", "U+1DF0E", "U+1DF0F", "U+1DF10", "U+1DF11",
    "U+1DF12", "U+1DF13", "U+1DF14", "U+1DF15", "U+1DF16", "U+1DF17", "U+1DF18", "U+1DF19", "U+1DF1A", "U+1DF1B", "U+1DF1C", "U+1DF1D",
    "U+1DF1E", "U+1F130", "U+1F131", "U+1F132", "U+1F133", "U+1F134", "U+1F135", "U+1F136", "U+1F137", "U+1F138", "U+1F139", "U+1F13A",
    "U+1F13B", "U+1F13C", "U+1F13D", "U+1F13E", "U+1F13F", "U+1F140", "U+1F141", "U+1F142", "U+1F143", "U+1F144", "U+1F145", "U+1F146",
    "U+1F147", "U+1F148", "U+1F149", "U+1F150", "U+1F151", "U+1F152", "U+1F153", "U+1F154", "U+1F155", "U+1F156", "U+1F157", "U+1F158",
    "U+1F159", "U+1F15A", "U+1F15B", "U+1F15C", "U+1F15D", "U+1F15E", "U+1F15F", "U+1F160", "U+1F161", "U+1F162", "U+1F163", "U+1F164",
    "U+1F165", "U+1F166", "U+1F167", "U+1F168", "U+1F169", "U+1F170", "U+1F171", "U+1F172", "U+1F173", "U+1F174", "U+1F175", "U+1F176",
    "U+1F177", "U+1F178", "U+1F179", "U+1F17A", "U+1F17B", "U+1F17C", "U+1F17D", "U+1F17E", "U+1F17F", "U+1F180", "U+1F181", "U+1F182",
    "U+1F183", "U+1F184", "U+1F185", "U+1F186", "U+1F187", "U+1F188", "U+1F189"
  }

\* the case-ignorable characters
CASE_IGNORABLE ==
  {
    "'", ".", ":", "^", "U+0060", "¨", "U+00AD", "¯", "´", "·", "¸", "U+02B0",
    "U+02B1", "U+02B2", "U+02B3", "U+02B4", "U+02B5", "U+02B6", "U+02B7", "U+02B8", "U+02B9", "U+02BA", "U+02BB", "U+02BC",
    "U+02BD", "U+02BE", "U+02BF", "U+02C0", "U+02C1", "U+02C2", "U+02C3", "U+02C4", "U+02C5", "U+02C6", "U+02C7", "U+02C8",
    "U+02C9", "U+02CA", "U+02CB", "U+02CC", "U+02CD", "U+02CE", "U+02CF", "U+02D0", "U+02D1", "U+02D2", "U+02D3", "U+02D4",
    "U+02D5", "U+02D6", "U+02D7", "U+02D8", "U+02D9", "U+02DA", "U+02DB", "U+02DC", "U+02DD", "U+02DE", "U+02DF", "U+02E0",
    "U+02E1", "U+02E2", "U+02E3", "U+02E4", "U+02E5", "U+02E6", "U+02E7", "U+02E8", "U+02E9", "U+02EA", "U+02EB", "U+02EC",
    "U+02ED", "U+02EE", "U+02EF", "U+02F0", "U+02F1", "U+02F2", "U+02F3", "U+02F4", "U+02F5", "U+02F6", "U+02F7", "U+02F8",
    "U+02F9", "U+02FA", "U+02FB", "U+02FC", "U+02FD", "U+02FE", "U+02FF", "U+0300", "U+0301", "U+0302", "U+0303", "U+0304",
    "U+0305", "U+0306", "U+0307", "U+0308", "U+0309", "U+030A", "U+030B", "U+030C", "U+030D", "U+030E", "U+030F", "U+0310",
    "U+0311", "U+0312", "U+0313", "U+0314", "U+0315", "U+0316", "U+0317", "U+0318", "U+0319", "U+031A", "U+031B", "U+031C",
    "U+031D", "U+031E", "U+031F", "U+0320", "U+0321", "U+0322", "U+0323", "U+0324", "U+0325", "U+0326", "U+0327", "U+0328",
    "U+0329", "U+032A", "U+032B", "U+032C", "U+032D", "U+032E", "U+032F", "U+0330", "U+0331", "U+0332", "U+0333", "U+0334",
    "U+0335", "U+0336", "U+0337", "U+0338", "U+0339", "U+033A", "U+033B", "U+033C", "U+033D", "U+033E", "U+033F", "U+0340",
    "U+0341", "U+0342", "U+0343", "U+0344", "U+0345", "U+0346", "U+0347", "U+0348", "U+0349", "U+034A", "U+034B", "U+034C",
    "U+034D", "U+034E", "U+034F", "U+0350", "U+0351", "U+0352", "U+0353", "U+0354", "U+0355", "U+0356", "U+0357", "U+0358",
    "U+0359", "U+035A", "U+035B", "U+035C", "U+035D", "U+035E", "U+035F", "U+0360", "U+0361", "U+0362", "U+0363", "U+0364",
    "U+0365", "U+0366", "U+0367", "U+0368", "U+0369", "U+036A", "U+036B", "U+036C", "U+036D", "U+036E", "U+036F", "U+0374",
    "U+0375", "U+037A", "U+0384", "U+0385", "U+0387", "U+0483", "U+0484", "U+0485", "U+0486", "U+0487", "U+0488", "U+0489",
    "U+0559", "U+055F", "U+0591", "U+0592", "U+0593", "U+0594", "U+0595", "U+0596", "U+0597", "U+0598", "U+0599", "U+059A",
    "U+059B", "U+059C", "U+059D", "U+059E", "U+059F", "U+05A0", "U+05A1", "U+05A2", "U+05A3", "U+05A4", "U+05A5", "U+05A6",
    "U+05A7", "U+05A8", "U+05A9", "U+05AA", "U+05AB", "U+05AC", "U+05AD", "U+05AE", "U+05AF", "U+05B0", "U+05B1", "U+05B2",
    "U+05B3", "U+05B4", "U+05B5", "U+05B6", "U+05B7", "U+05B8", "U+05B9", "U+05BA", "U+05BB", "U+05BC", "U+05BD", "U+05BF",
    "U+05C1", "U+05C2", "U+05C4", "U+05C5", "U+05C7", "U+05F4", "U+0600", "U+0601", "U+0602", "U+0603", "U+0604", "U+0605",
    "U+0610", "U+0611", "U+0612", "U+0613", "U+0614", "U+0615", "U+0616", "U+0617", "U+0618", "U+0619", "U+061A", "U+061C",
    "U+0640", "U+064B", "U+064C", "U+064D", "U+064E", "U+064F", "U+0650", "U+0651", "U+0652", "U+0653", "U+0654", "U+0655",
    "U+0656", "U+0657", "U+0658", "U+0659", "U+065A", "U+065B", "U+065C", "U+065D", "U+065E", "U+065F", "U+0670", "U+06D6",
    "U+06D7", "U+06D8", "U+06D9", "U+06DA", "U+06DB", "U+06DC", "U+06DD", "U+06DF", "U+06E0", "U+06E1", "U+06E2", "U+06E3",
    "U+06E4", "U+06E5", "U+06E6", "U+06E7", "U+06E8", "U+06EA", "U+06EB", "U+06EC", "U+06ED", "U+070F", "U+0711", "U+0730",
    "U+0731", "U+0732", "U+0733", "U+0734", "U+0735", "U+0736", "U+0737", "U+0738", "U+0739", "U+073A", "U+073B", "U+073C",
    "U+073D", "U+073E", "U+073F", "U+0740", "U+0741", "U+0742", "U+0743", "U+0744", "U+0745", "U+0746", "U+0747", "U+0748",
    "U+0749", "U+074A", "U+07A6", "U+07A7", "U+07A8", "U+07A9", "U+07AA", "U+07AB", "U+07AC", "U+07AD", "U+07AE", "U+07AF",
    "U+07B0", "U+07EB", "U+07EC", "U+07ED", "U+07EE", "U+07EF", "U+07F0", "U+07F1", "U+07F2", "U+07F3", "U+07F4", "U+07F5",
    "U+07FA", "U+07FD", "U+0816", "U+0817", "U+0818", "U+0819", "U+081A", "U+081B", "U+081C", "U+081D", "U+081E", "U+081F",
    "U+0820", "U+0821", "U+0822", "U+0823", "U+0824", "U+0825", "U+0826", "U+0827", "U+0828", "U+0829", "U+082A", "U+082B",
    "U+082C", "U+082D", "U+0859", "U+085A", "U+085B", "U+0888", "U+0890", "U+0891", "U+0898", "U+0899", "U+089A", "U+089B",
    "U+089C", "U+089D", "U+089E", "U+089F", "U+08C9", "U+08CA", "U+08CB", "U+08CC", "U+08CD", "U+08CE", "U+08CF", "U+08D0",
    "U+08D1", "U+08D2", "U+08D3", "U+08D4", "U+08D5", "U+08D6", "U+08D7", "U+08D8", "U+08D9", "U+08DA", "U+08DB", "U+08DC",
    "U+08DD", "U+08DE", "U+08DF", "U+08E0", "U+08E1", "U+08E2", "U+08E3", "U+08E4", "U+08E5", "U+08E6", "U+08E7", "U+08E8",
    "U+08E9", "U+08EA", "U+08EB", "U+08EC", "U+08ED", "U+08EE", "U+08EF", "U+08F0", "U+08F1", "U+08F2", "U+08F3", "U+08F4",
    "U+08F5", "U+08F6", "U+08F7", "U+08F8", "U+08F9", "U+08FA", "U+08FB", "U+08FC", "U+08FD", "U+08FE", "U+08FF", "U+0900",
    "U+0901", "U+0902", "U+093A", "U+093C", "U+0941", "U+0942", "U+0943", "U+0944", "U+0945", "U+0946", "U+0947", "U+0948",
    "U+094D", "U+0951", "U+0952", "U+0953", "U+0954", "U+0955", "U+0956", "U+0957", "U+0962", "U+0963", "U+0971", "U+0981",
    "U+09BC", "U+09C1", "U+09C2", "U+09C3", "U+09C4", "U+09CD", "U+09E2", "U+09E3", "U+09FE", "U+0A01", "U+0A02", "U+0A3C",
    "U+0A41", "U+0A42", "U+0A47", "U+0A48", "U+0A4B", "U+0A4C", "U+0A4D", "U+0A51", "U+0A70", "U+0A71", "U+0A75", "U+0A81",
    "U+0A82", "U+0ABC", "U+0AC1", "U+0AC2", "U+0AC3", "U+0AC4", "U+0AC5", "U+0AC7", "U+0AC8", "U+0ACD", "U+0AE2", "U+0AE3",
    "U+0AFA", "U+0AFB", "U+0AFC", "U+0AFD", "U+0AFE", "U+0AFF", "U+0B01", "U+0B3C", "U+0B3F", "U+0B41", "U+0B42", "U+0B43",
    "U+0B44", "U+0B4D", "U+0B55", "U+0B56", "U+0B62", "U+0B63", "U+0B82", "U+0BC0", "U+0BCD", "U+0C00", "U+0C04", "U+0C3C",
    "U+0C3E", "U+0C3F", "U+0C40", "U+0C46", "U+0C47", "U+0C48", "U+0C4A", "U+0C4B", "U+0C4C", "U+0C4D", "U+0C55", "U+0C56",
    "U+0C62", "U+0C63", "U+0C81", "U+0CBC", "U+0CBF", "U+0CC6", "U+0CCC", "U+0CCD", "U+0CE2", "U+0CE3", "U+0D00", "U+0D01",
    "U+0D3B", "U+0D3C", "U+0D41", "U+0D42", "U+0D43", "U+0D44", "U+0D4D", "U+0D62", "U+0D63", "U+0D81", "U+0DCA", "U+0DD2",
    "U+0DD3", "U+0DD4", "U+0DD6", "U+0E31", "U+0E34", "U+0E35", "U+0E36", "U+0E37", "U+0E38", "U+0E39", "U+0E3A", "U+0E46",
    "U+0E47", "U+0E48", "U+0E49", "U+0E4A", "U+0E4B", "U+0E4C", "U+0E4D", "U+0E4E", "U+0EB1", "U+0EB4", "U+0EB5", "U+0EB6",
    "U+0EB7", "U+0EB8", "U+0EB9", "U+0EBA", "U+0EBB", "U+0EBC", "U+0EC6", "U+0EC8", "U+0EC9", "U+0ECA", "U+0ECB", "U+0ECC",
    "U+0ECD", "U+0F18", "U+0F19", "U+0F35", "U+0F37", "U+0F39", "U+0F71", "U+0F72", "U+0F73", "U+0F74", "U+0F75", "U+0F76",
    "U+0F77", "U+0F78", "U+0F79", "U+0F7A", "U+0F7B", "U+0F7C", "U+0F7D", "U+0F7E", "U+0F80", "U+0F81", "U+0F82", "U+0F83",
    "U+0F84", "U+0F86", "U+0F87", "U+0F8D", "U+0F8E", "U+0F8F", "U+0F90", "U+0F91", "U+0F92", "U+0F93", "U+0F94", "U+0F95",
    "U+0F96", "U+0F97", "U+0F99", "U+0F9A", "U+0F9B", "U+0F9C", "U+0F9D", "U+0F9E", "U+0F9F", "U+0FA0", "U+0FA1", "U+0FA2",
    "U+0FA3", "U+0FA4", "U+0FA5", "U+0FA6", "U+0FA7", "U+0FA8", "U+0FA9", "U+0FAA", "U+0FAB", "U+0FAC", "U+0FAD", "U+0FAE",
    "U+0FAF", "U+0FB0", "U+0FB1", "U+0FB2", "U+0FB3", "U+0FB4", "U+0FB5", "U+0FB6", "U+0FB7", "U+0FB8", "U+0FB9", "U+0FBA",
    "U+0FBB", "U+0FBC", "U+0FC6", "U+102D", "U+102E", "U+102F", "U+1030", "U+1032", "U+1033", "U+1034", "U+1035", "U+1036",
    "U+1037", "U+1039", "U+103A", "U+103D", "U+103E", "U+1058", "U+1059", "U+105E", "U+105F", "U+1060", "U+1071", "U+1072",
    "U+1073", "U+1074", "U+1082", "U+1085", "U+1086", "U+108D", "U+109D", "U+10FC", "U+135D", "U+135E", "U+135F", "U+1712",
    "U+1713", "U+1714", "U+1732", "U+1733", "U+1752", "U+1753", "U+1772", "U+1773", "U+17B4", "U+17B5", "U+17B7", "U+17B8",
    "U+17B9", "U+17BA", "U+17BB", "U+17BC", "U+17BD", "U+17C6", "U+17C9", "U+17CA", "U+17CB", "U+17CC", "U+17CD", "U+17CE",
    "U+17CF", "U+17D0", "U+17D1", "U+17D2", "U+17D3", "U+17D7", "U+17DD", "U+180B", "U+180C", "U+180D", "U+180E", "U+180F",
    "U+1843", "U+1885", "U+1886", "U+18A9", "U+1920", "U+1921", "U+1922", "U+1927", "U+1928", "U+1932", "U+1939", "U+193A",
    "U+193B", "U+1A17", "U+1A18", "U+1A1B", "U+1A56", "U+1A58", "U+1A59", "U+1A5A", "U+1A5B", "U+1A5C", "U+1A5D", "U+1A5E",
    "U+1A60", "U+1A62", "U+1A65", "U+1A66", "U+1A67", "U+1A68", "U+1A69", "U+1A6A", "U+1A6B", "U+1A6C", "U+1A73", "U+1A74",
    "U+1A75", "U+1A76", "U+1A77", "U+1A78", "U+1A79", "U+1A7A", "U+1A7B", "U+1A7C", "U+1A7F", "U+1AA7", "U+1AB0", "U+1AB1",
    "U+1AB2", "U+1AB3", "U+1AB4", "U+1AB5", "U+1AB6", "U+1AB7", "U+1AB8", "U+1AB9", "U+1ABA", "U+1ABB", "U+1ABC", "U+1ABD",
    "U+1ABE", "U+1ABF", "U+1AC0", "U+1AC1", "U+1AC2", "U+1AC3", "U+1AC4", "U+1AC5", "U+1AC6", "U+1AC7", "U+1AC8", "U+1AC9",
    "U+1ACA", "U+1ACB", "U+1ACC", "U+1ACD", "U+1ACE", "U+1B00", "U+1B01", "U+1B02", "U+1B03", "U+1B34", "U+1B36", "U+1B37",
    "U+1B38", "U+1B39", "U+1B3A", "U+1B3C", "U+1B42", "U+1B6B", "U+1B6C", "U+1B6D", "U+1B6E", "U+1B6F", "U+1B70", "U+1B71",
    "U+1B72", "U+1B73", "U+1B80", "U+1B81", "U+1BA2", "U+1BA3", "U+1BA4", "U+1BA5", "U+1BA8", "U+1BA9", "U+1BAB", "U+1BAC",
    "U+1BAD", "U+1BE6", "U+1BE8", "U+1BE9", "U+1BED", "U+1BEF", "U+1BF0", "U+1BF1", "U+1C2C", "U+1C2D", "U+1C2E", "U+1C2F",
    "U+1C30", "U+1C31", "U+1C32", "U+1C33", "U+1C36", "U+1C37", "U+1C78", "U+1C79", "U+1C7A", "U+1C7B", "U+1C7C", "U+1C7D",
    "U+1CD0", "U+1CD1", "U+1CD2", "U+1CD4", "U+1CD5", "U+1CD6", "U+1CD7", "U+1CD8", "U+1CD9", "U+1CDA", "U+1CDB", "U+1CDC",
    "U+1CDD", "U+1CDE", "U+1CDF", "U+1CE0", "U+1CE2", "U+1CE3", "U+1CE4", "U+1CE5", "U+1CE6", "U+1CE7", "U+1CE8", "U+1CED",
    "U+1CF4", "U+1CF8", "U+1CF9", "U+1D2C", "U+1D2D", "U+1D2E", "U+1D2F", "U+1D30", "U+1D31", "U+1D32", "U+1D33", "U+1D34",
    "U+1D35", "U+1D36", "U+1D37", "U+1D38", "U+1D39", "U+1D3A", "U+1D3B", "U+1D3C", "U+1D3D", "U+1D3E", "U+1D3F", "U+1D40",
    "U+1D41", "U+1D42", "U+1D43", "U+1D44", "U+1D45", "U+1D46", "U+1D47", "U+1D48", "U+1D49", "U+1D4A", "U+1D4B", "U+1D4C",
    "U+1D4D", "U+1D4E", "U+1D4F", "U+1D50", "U+1D51", "U+1D52", "U+1D53", "U+1D54", "U+1D55", "U+1D56", "U+1D57", "U+1D58",
    "U+1D59", "U+1D5A", "U+1D5B", "U+1D5C", "U+1D5D", "U+1D5E", "U+1D5F", "U+1D60", "U+1D61", "U+1D62", "U+1D63", "U+1D64",
    "U+1D65", "U+1D66", "U+1D67", "U+1D68", "U+1D69", "U+1D6A", "U+1D78", "U+1D9B", "U+1D9C", "U+1D9D", "U+1D9E", "U+1D9F",
    "U+1DA0", "U+1DA1", "U+1DA2", "U+1DA3", "U+1DA4", "U+1DA5", "U+1DA6", "U+1DA7", "U+1DA8", "U+1DA9", "U+1DAA", "U+1DAB",
    "U+1DAC", "U+1DAD", "U+1DAE", "U+1DAF", "U+1DB0", "U+1DB1", "U+1DB2", "U+1DB3", "U+1DB4", "U+1DB5", "U+1DB6", "U+1DB7",
    "U+1DB8", "U+1DB9", "U+1DBA", "U+1DBB", "U+1DBC", "U+1DBD", "U+1DBE", "U+1DBF", "U+1DC0", "U+1DC1", "U+1DC2", "U+1DC3",
    "U+1DC4", "U+1DC5", "U+1DC6", "U+1DC7", "U+1DC8", "U+1DC9", "U+1DCA", "U+1DCB", "U+1DCC", "U+1DCD", "U+1DCE", "U+1DCF",
    "U+1DD0", "U+1DD1", "U+1DD2", "U+1DD3", "U+1DD4", "U+1DD5", "U+1DD6", "U+1DD7", "U+1DD8", "U+1DD9", "U+1DDA", "U+1DDB",
    "U+1DDC", "U+1DDD", "U+1DDE", "U+1DDF", "U+1DE0", "U+1DE1", "U+1DE2", "U+1DE3", "U+1DE4", "U+1DE5", "U+1DE6", "U+1DE7",
    "U+1DE8", "U+1DE9", "U+1DEA", "U+1DEB", "U+1DEC", "U+1DED", "U+1DEE", "U+1DEF", "U+1DF0", "U+1DF1", "U+1DF2", "U+1DF3",
    "U+1DF4", "U+1DF5", "U+1DF6", "U+1DF7", "U+1DF8", "U+1DF9", "U+1DFA", "U+1DFB", "U+1DFC", "U+1DFD", "U+1DFE", "U+1DFF",
    "U+1FBD", "U+1FBF", "U+1FC0", "U+1FC1", "U+1FCD", "U+1FCE", "U+1FCF", "U+1FDD", "U+1FDE", "U+1FDF", "U+1FED", "U+1FEE",
    "U+1FEF", "U+1FFD", "U+1FFE", "U+200B", "U+200C", "U+200D", "U+200E", "U+200F", "U+2018", "U+2019", "U+2024", "U+2027",
    "U+202A", "U+202B", "U+202C", "U+202D", "U+202E", "U+2060", "U+2061", "U+2062", "U+2063", "U+2064", "U+2066", "U+2067",
    "U+2068", "U+2069", "U+206A", "U+206B", "U+206C", "U+206D", "U+206E", "U+206F", "U+2071", "U+207F", "U+2090", "U+2091",
    "U+2092", "U+2093", "U+2094", "U+2095", "U+2096", "U+2097", "U+2098", "U+2099", "U+209A", "U+209B", "U+209C", "U+20D0",
    "U+20D1", "U+20D2", "U+20D3", "U+20D4", "U+20D5", "U+20D6", "U+20D7", "U+20D8", "U+20D9", "U+20DA", "U+20DB", "U+20DC",
    "U+20DD", "U+20DE", "U+20DF", "U+20E0", "U+20E1", "U+20E2", "U+20E3", "U+20E4", "U+20E5", "U+20E6", "U+20E7", "U+20E8",
    "U+20E9", "U+20EA", "U+20EB", "U+20EC", "U+20ED", "U+20EE", "U+20EF", "U+20F0", "U+2C7C", "U+2C7D", "U+2CEF", "U+2CF0",
    "U+2CF1", "U+2D6F", "U+2D7F", "U+2DE0", "U+2DE1", "U+2DE2", "U+2DE3", "U+2DE4", "U+2DE5", "U+2DE6", "U+2DE7", "U+2DE8",
    "U+2DE9", "U+2DEA", "U+2DEB", "U+2DEC", "U+2DED", "U+2DEE", "U+2DEF", "U+2DF0", "U+2DF1", "U+2DF2", "U+2DF3", "U+2DF4",
    "U+2DF5", "U+2DF6", "U+2DF7", "U+2DF8", "U+2DF9", "U+2DFA", "U+2DFB", "U+2DFC", "U+2DFD", "U+2DFE", "U+2DFF", "U+2E2F",
    "U+3005", "U+302A", "U+302B", "U+302C", "U+302D", "U+3031", "U+3032", "U+3033", "U+3034", "U+3035", "U+303B", "U+3099",
    "U+309A", "U+309B", "U+309C", "U+309D", "U+309E", "U+30FC", "U+30FD", "U+30FE", "U+A015", "U+A4F8", "U+A4F9", "U+A4FA",
    "U+A4FB", "U+A4FC", "U+A4FD", "U+A60C", "U+A66F", "U+A670", "U+A671", "U+A672", "U+A674", "U+A675", "U+A676", "U+A677",
    "U+A678", "U+A679", "U+A67A", "U+A67B", "U+A67C", "U+A67D", "U+A67F", "U+A69C", "U+A69D", "U+A69E", "U+A69F", "U+A6F0",
    "U+A6F1", "U+A700", "U+A701", "U+A702", "U+A703", "U+A704", "U+A705", "U+A706", "U+A707", "U+A708", "U+A709", "U+A70A",
    "U+A70B", "U+A70C", "U+A70D", "U+A70E", "U+A70F", "U+A710", "U+A711", "U+A712", "U+A713", "U+A714", "U+A715", "U+A716",
    "U+A717", "U+A718", "U+A719", "U+A71A", "U+A71B", "U+A71C", "U+A71D", "U+A71E", "U+A71F", "U+A720", "U+A721", "U+A770",
    "U+A788", "U+A789", "U+A78A", "U+A7F2", "U+A7F3", "U+A7F4", "U+A7F8", "U+A7F9", "U+A802", "U+A806", "U+A80B", "U+A825",
    "U+A826", "U+A82C", "U+A8C4", "U+A8C5", "U+A8E0", "U+A8E1", "U+A8E2", "U+A8E3", "U+A8E4", "U+A8E5", "U+A8E6", "U+A8E7",
    "U+A8E8", "U+A8E9", "U+A8EA", "U+A8EB", "U+A8EC", "U+A8ED", "U+A8EE", "U+A8EF", "U+A8F0", "U+A8F1", "U+A8FF", "U+A926",
    "U+A927", "U+A928", "U+A929", "U+A92A", "U+A92B", "U+A92C", "U+A92D", "U+A947", "U+A948", "U+A949", "U+A94A", "U+A94B",
    "U+A94C", "U+A94D", "U+A94E", "U+A94F", "U+A950", "U+A951", "U+A980", "U+A981", "U+A982", "U+A9B3", "U+A9B6", "U+A9B7",
    "U+A9B8", "U+A9B9", "U+A9BC", "U+A9BD", "U+A9CF", "U+A9E5", "U+A9E6", "U+AA29", "U+AA2A", "U+AA2B", "U+AA2C", "U+AA2D",
    "U+AA2E", "U+AA31", "U+AA32", "U+AA35", "U+AA36", "U+AA43", "U+AA4C", "U+AA70", "U+AA7C", "U+AAB0", "U+AAB2", "U+AAB3",
    "U+AAB4", "U+AAB7", "U+AAB8", "U+AABE", "U+AABF", "U+AAC1", "U+AADD", "U+AAEC", "U+AAED", "U+AAF3", "U+AAF4", "U+AAF6",
    "U+AB5B", "U+AB5C", "U+AB5D", "U+AB5E", "U+AB5F", "U+AB69", "U+AB6A", "U+AB6B", "U+ABE5", "U+ABE8", "U+ABED", "U+FB1E",
    "U+FBB2", "U+FBB3", "U+FBB4", "U+FBB5", "U+FBB6", "U+FBB7", "U+FBB8", "U+FBB9", "U+FBBA", "U+FBBB", "U+FBBC", "U+FBBD",
    "U+FBBE", "U+FBBF", "U+FBC0", "U+FBC1", "U+FBC2", "U+FE00", "U+FE01", "U+FE02", "U+FE03", "U+FE04", "U+FE05", "U+FE06",
    "U+FE07", "U+FE08", "U+FE09", "U+FE0A", "U+FE0B", "U+FE0C", "U+FE0D", "U+FE0E", "U+FE0F", "U+FE13", "U+FE20", "U+FE21",
    "U+FE22", "U+FE23", "U+FE24", "U+FE25", "U+FE26", "U+FE27", "U+FE28", "U+FE29", "U+FE2A", "U+FE2B", "U+FE2C", "U+FE2D",
    "U+FE2E", "U+FE2F", "U+FE52", "U+FE55", "U+FEFF", "U+FF07", "U+FF0E", "U+FF1A", "U+FF3E", "U+FF40", "U+FF70", "U+FF9E",
    "U+FF9F", "U+FFE3", "U+FFF9", "U+FFFA", "U+FFFB", "U+101FD", "U+102E0", "U+10376", "U+10377", "U+10378", "U+10379", "U+1037A",
    "U+10780", "U+10781", "U+10782", "U+10783", "U+10784", "U+10785", "U+10787", "U+10788", "U+10789", "U+1078A", "U+1078B", "U+1078C",
    "U+1078D", "U+1078E", "U+1078F", "U+10790", "U+10791", "U+10792", "U+10793", "U+10794", "U+10795", "U+10796", "U+10797", "U+10798",
    "U+10799", "U+1079A", "U+1079B", "U+1079C", "U+1079D", "U+1079E", "U+1079F", "U+107A0", "U+107A1", "U+107A2", "U+107A3", "U+107A4",
    "U+107A5", "U+107A6", "U+107A7", "U+107A8", "U+107A9", "U+107AA", "U+107AB", "U+107AC", "U+107AD", "U+107AE", "U+107AF", "U+107B0",
    "U+107B2", "U+107B3", "U+107B4", "U+107B5", "U+107B6", "U+107B7", "U+107B8", "U+107B9", "U+107BA", "U+10A01", "U+10A02", "U+10A03",
    "U+10A05", "U+10A06", "U+10A0C", "U+10A0D", "U+10A0E", "U+10A0F", "U+10A38", "U+10A39", "U+10A3A", "U+10A3F", "U+10AE5", "U+10AE6",
    "U+10D24", "U+10D25", "U+10D26", "U+10D27", "U+10EAB", "U+10EAC", "U+10F46", "U+10F47", "U+10F48", "U+10F49", "U+10F4A", "U+10F4B",
    "U+10F4C", "U+10F4D", "U+10F4E", "U+10F4F", "U+10F50", "U+10F82", "U+10F83", "U+10F84", "U+10F85", "U+11001", "U+11038", "U+11039",
    "U+1103A", "U+1103B", "U+1103C", "U+1103D", "U+1103E", "U+1103F", "U+11040", "U+11041", "U+11042", "U+11043", "U+11044", "U+11045",
    "U+11046", "U+11070", "U+11073", "U+11074", "U+1107F", "U+11080", "U+11081", "U+110B3", "U+110B4", "U+110B5", "U+110B6", "U+110B9",
    "U+110BA", "U+110BD", "U+110C2", "U+110CD", "U+11100", "U+11101", "U+11102", "U+11127", "U+11128", "U+11129", "U+1112A", "U+1112B",
    "U+1112D", "U+1112E", "U+1112F", "U+11130", "U+11131", "U+11132", "U+11133", "U+11134", "U+11173", "U+11180", "U+11181", "U+111B6",
    "U+111B7", "U+111B8", "U+111B9", "U+111BA", "U+111BB", "U+111BC", "U+111BD", "U+111BE", "U+111C9", "U+111CA", "U+111CB", "U+111CC",
    "U+111CF", "U+1122F", "U+11230", "U+11231", "U+11234", "U+11236", "U+11237", "U+1123E", "U+112DF", "U+112E3", "U+112E4", "U+112E5",
    "U+112E6", "U+112E7", "U+112E8", "U+112E9", "U+112EA", "U+11300", "U+11301", "U+1133B", "U+1133C", "U+11340", "U+11366", "U+11367",
    "U+11368", "U+11369", "U+1136A", "U+1136B", "U+1136C", "U+11370", "U+11371", "U+11372", "U+11373", "U+11374", "U+11438", "U+11439",
    "U+1143A", "U+1143B", "U+1143C", "U+1143D", "U+1143E", "U+1143F", "U+11442", "U+11443", "U+11444", "U+11446", "U+1145E", "U+114B3",
    "U+114B4", "U+114B5", "U+114B6", "U+114B7", "U+114B8", "U+114BA", "U+114BF", "U+114C0", "U+114C2", "U+114C3", "U+115B2", "U+115B3",
    "U+115B4", "U+115B5", "U+115BC", "U+115BD", "U+115BF", "U+115C0", "U+115DC", "U+115DD", "U+11633", "U+11634", "U+11635", "U+11636",
    "U+11637", "U+11638", "U+11639", "U+1163A", "U+1163D", "U+1163F", "U+11640", "U+116AB", "U+116AD", "U+116B0", "U+116B1", "U+116B2",
    "U+116B3", "U+116B4", "U+116B5", "U+116B7", "U+1171D", "U+1171E", "U+1171F", "U+11722", "U+11723", "U+11724", "U+11725", "U+11727",
    "U+11728", "U+11729", "U+1172A", "U+1172B", "U+1182F", "U+11830", "U+11831", "U+11832", "U+11833", "U+11834", "U+11835", "U+11836",
    "U+11837", "U+11839", "U+1183A", "U+1193B", "U+1193C", "U+1193E", "U+11943", "U+119D4", "U+119D5", "U+119D6", "U+119D7", "U+119DA",
    "U+119DB", "U+119E0", "U+11A01", "U+11A02", "U+11A03", "U+11A04", "U+11A05", "U+11A06", "U+11A07", "U+11A08", "U+11A09", "U+11A0A",
    "U+11A33", "U+11A34", "U+11A35", "U+11A36", "U+11A37", "U+11A38", "U+11A3B", "U+11A3C", "U+11A3D", "U+11A3E", "U+11A47", "U+11A51",
    "U+11A52", "U+11A53", "U+11A54", "U+11A55", "U+11A56", "U+11A59", "U+11A5A", "U+11A5B", "U+11A8A", "U+11A8B", "U+11A8C", "U+11A8D",
    "U+11A8E", "U+11A8F", "U+11A90", "U+11A91", "U+11A92", "U+11A93", "U+11A94", "U+11A95", "U+11A96", "U+11A98", "U+11A99", "U+11C30",
    "U+11C31", "U+11C32", "U+11C33", "U+11C34", "U+11C35", "U+11C36", "U+11C38", "U+11C39", "U+11C3A", "U+11C3B", "U+11C3C", "U+11C3D",
    "U+11C3F", "U+11C92", "U+11C93", "U+11C94", "U+11C95", "U+11C96", "U+11C97", "U+11C98", "U+11C99", "U+11C9A", "U+11C9B", "U+11C9C",
    "U+11C9D", "U+11C9E", "U+11C9F", "U+11CA0", "U+11CA1", "U+11CA2", "U+11CA3", "U+11CA4", "U+11CA5", "U+11CA6", "U+11CA7", "U+11CAA",
    "U+11CAB", "U+11CAC", "U+11CAD", "U+11CAE", "U+11CAF", "U+11CB0", "U+11CB2", "U+11CB3", "U+11CB5", "U+11CB6", "U+11D31", "U+11D32",
    "U+11D33", "U+11D34", "U+11D35", "U+11D36", "U+11D3A", "U+11D3C", "U+11D3D", "U+11D3F", "U+11D40", "U+11D41", "U+11D42", "U+11D43",
    "U+11D44", "U+11D45", "U+11D47", "U+11D90", "U+11D91", "U+11D95", "U+11D97", "U+11EF3", "U+11EF4", "U+13430", "U+13431", "U+13432",
    "U+13433", "U+13434", "U+13435", "U+13436", "U+13437", "U+13438", "U+16AF0", "U+16AF1", "U+16AF2", "U+16AF3", "U+16AF4", "U+16B30",
    "U+16B31", "U+16B32", "U+16B33", "U+16B34", "U+16B35", "U+16B36", "U+16B40", "U+16B41", "U+16B42", "U+16B43", "U+16F4F", "U+16F8F",
    "U+16F90", "U+16F91", "U+16F92", "U+16F93", "U+16F94", "U+16F95", "U+16F96", "U+16F97", "U+16F98", "U+16F99", "U+16F9A", "U+16F9B",
    "U+16F9C", "U+16F9D", "U+16F9E", "U+16F9F", "U+16FE0", "U+16FE1", "U+16FE3", "U+16FE4", "U+1AFF0", "U+1AFF1", "U+1AFF2", "U+1AFF3",
    "U+1AFF5", "U+1AFF6", "U+1AFF7", "U+1AFF8", "U+1AFF9", "U+1AFFA", "U+1AFFB", "U+1AFFD", "U+1AFFE", "U+1BC9D", "U+1BC9E", "U+1BCA0",
    "U+1BCA1", "U+1BCA2", "U+1BCA3", "U+1CF00", "U+1CF01", "U+1CF02", "U+1CF03", "U+1CF04", "U+1CF05", "U+1CF06", "U+1CF07", "U+1CF08",
    "U+1CF09", "U+1CF0A", "U+1CF0B", "U+1CF0C", "U+1CF0D", "U+1CF0E", "U+1CF0F", "U+1CF10", "U+1CF11", "U+1CF12", "U+1CF13", "U+1CF14",
    "U+1CF15", "U+1CF16", "U+1CF17", "U+1CF18", "U+1CF19", "U+1CF1A", "U+1CF1B", "U+1CF1C", "U+1CF1D", "U+1CF1E", "U+1CF1F", "U+1CF20",
    "U+1CF21", "U+1CF22", "U+1CF23", "U+1CF24", "U+1CF25", "U+1CF26", "U+1CF27", "U+1CF28", "U+1CF29", "U+1CF2A", "U+1CF2B", "U+1CF2C",
    "U+1CF2D", "U+1CF30", "U+1CF31", "U+1CF32", "U+1CF33", "U+1CF34", "U+1CF35", "U+1CF36", "U+1CF37", "U+1CF38", "U+1CF39", "U+1CF3A",
    "U+1CF3B", "U+1CF3C", "U+1CF3D", "U+1CF3E", "U+1CF3F", "U+1CF40", "U+1CF41", "U+1CF42", "U+1CF43", "U+1CF44", "U+1CF45", "U+1CF46",
    "U+1D167", "U+1D168", "U+1D169", "U+1D173", "U+1D174", "U+1D175", "U+1D176", "U+1D177", "U+1D178", "U+1D179", "U+1D17A", "U+1D17B",
    "U+1D17C", "U+1D17D", "U+1D17E", "U+1D17F", "U+1D180", "U+1D181", "U+1D182", "U+1D185", "U+1D186", "U+1D187", "U+1D188", "U+1D189",
    "U+1D18A", "U+1D18B", "U+1D1AA", "U+1D1AB", "U+1D1AC", "U+1D1AD", "U+1D242", "U+1D243", "U+1D244", "U+1DA00", "U+1DA01", "U+1DA02",
    "U+1DA03", "U+1DA04", "U+1DA05", "U+1DA06", "U+1DA07", "U+1DA08", "U+1DA09", "U+1DA0A", "U+1DA0B", "U+1DA0C", "U+1DA0D", "U+1DA0E",
    "U+1DA0F", "U+1DA10", "U+1DA11", "U+1DA12", "U+1DA13", "U+1DA14", "U+1DA15", "U+1DA16", "U+1DA17", "U+1DA18", "U+1DA19", "U+1DA1A",
    "U+1DA1B", "U+1DA1C", "U+1DA1D", "U+1DA1E", "U+1DA1F", "U+1DA20", "U+1DA21", "U+1DA22", "U+1DA23", "U+1DA24", "U+1DA25", "U+1DA26",
    "U+1DA27", "U+1DA28", "U+1DA29", "U+1DA2A", "U+1DA2B", "U+1DA2C", "U+1DA2D", "U+1DA2E", "U+1DA2F", "U+1DA30", "U+1DA31", "U+1DA32",
    "U+1DA33", "U+1DA34", "U+1DA35", "U+1DA36", "U+1DA3B", "U+1DA3C", "U+1DA3D", "U+1DA3E", "U+1DA3F", "U+1DA40", "U+1DA41", "U+1DA42",
    "U+1DA43", "U+1DA44", "U+1DA45", "U+1DA46", "U+1DA47", "U+1DA48", "U+1DA49", "U+1DA4A", "U+1DA4B", "U+1DA4C", "U+1DA4D", "U+1DA4E",
    "U+1DA4F", "U+1DA50", "U+1DA51", "U+1DA52", "U+1DA53", "U+1DA54", "U+1DA55", "U+1DA56", "U+1DA57", "U+1DA58", "U+1DA59", "U+1DA5A",
    "U+1DA5B", "U+1DA5C", "U+1DA5D", "U+1DA5E", "U+1DA5F", "U+1DA60", "U+1DA61", "U+1DA62", "U+1DA63", "U+1DA64", "U+1DA65", "U+1DA66",
    "U+1DA67", "U+1DA68", "U+1DA69", "U+1DA6A", "U+1DA6B", "U+1DA6C", "U+1DA75", "U+1DA84", "U+1DA9B", "U+1DA9C", "U+1DA9D", "U+1DA9E",
    "U+1DA9F", "U+1DAA1", "U+1DAA2", "U+1DAA3", "U+1DAA4", "U+1DAA5", "U+1DAA6", "U+1DAA7", "U+1DAA8", "U+1DAA9", "U+1DAAA", "U+1DAAB",
    "U+1DAAC", "U+1DAAD", "U+1DAAE", "U+1DAAF", "U+1E000", "U+1E001", "U+1E002", "U+1E003", "U+1E004", "U+1E005", "U+1E006", "U+1E008",
    "U+1E009", "U+1E00A", "U+1E00B", "U+1E00C", "U+1E00D", "U+1E00E", "U+1E00F", "U+1E010", "U+1E011", "U+1E012", "U+1E013", "U+1E014",
    "U+1E015", "U+1E016", "U+1E017", "U+1E018", "U+1E01B", "U+1E01C", "U+1E01D", "U+1E01E", "U+1E01F", "U+1E020", "U+1E021", "U+1E023",
    "U+1E024", "U+1E026", "U+1E027", "U+1E028", "U+1E029", "U+1E02A", "U+1E130", "U+1E131", "U+1E132", "U+1E133", "U+1E134", "U+1E135",
    "U+1E136", "U+1E137", "U+1E138", "U+1E139", "U+1E13A", "U+1E13B", "U+1E13C", "U+1E13D", "U+1E2AE", "U+1E2EC", "U+1E2ED", "U+1E2EE",
    "U+1E2EF", "U+1E8D0", "U+1E8D1", "U+1E8D2", "U+1E8D3", "U+1E8D4", "U+1E8D5", "U+1E8D6", "U+1E944", "U+1E945", "U+1E946", "U+1E947",
    "U+1E948", "U+1E949", "U+1E94A", "U+1E94B", "U+1F3FB", "U+1F3FC", "U+1F3FD", "U+1F3FE", "U+1F3FF", "U+E0001", "U+E0020", "U+E0021",
    "U+E0022", "U+E0023", "U+E0024", "U+E0025", "U+E0026", "U+E0027", "U+E0028", "U+E0029", "U+E002A", "U+E002B", "U+E002C", "U+E002D",
    "U+E002E", "U+E002F", "U+E0030", "U+E0031", "U+E0032", "U+E0033", "U+E0034", "U+E0035", "U+E0036", "U+E0037", "U+E0038", "U+E0039",
    "U+E003A", "U+E003B", "U+E003C", "U+E003D", "U+E003E", "U+E003F", "U+E0040", "U+E0041", "U+E0042", "U+E0043", "U+E0044", "U+E0045",
    "U+E0046", "U+E0047", "U+E0048", "U+E0049", "U+E004A", "U+E004B", "U+E004C", "U+E004D", "U+E004E", "U+E004F", "U+E0050", "U+E0051",
    "U+E0052", "U+E0053", "U+E0054", "U+E0055", "U+E0056", "U+E0057", "U+E0058", "U+E0059", "U+E005A", "U+E005B", "U+E005C", "U+E005D",
    "U+E005E", "U+E005F", "U+E0060", "U+E0061", "U+E0062", "U+E0063", "U+E0064", "U+E0065", "U+E0066", "U+E0067", "U+E0068", "U+E0069",
    "U+E006A", "U+E006B", "U+E006C", "U+E006D", "U+E006E", "U+E006F", "U+E0070", "U+E0071", "U+E0072", "U+E0073", "U+E0074", "U+E0075",
    "U+E0076", "U+E0077", "U+E0078", "U+E0079", "U+E007A", "U+E007B", "U+E007C", "U+E007D", "U+E007E", "U+E007F", "U+E0100", "U+E0101",
    "U+E0102", "U+E0103", "U+E0104", "U+E0105", "U+E0106", "U+E0107", "U+E0108", "U+E0109", "U+E010A", "U+E010B", "U+E010C", "U+E010D",
    "U+E010E", "U+E010F", "U+E0110", "U+E0111", "U+E0112", "U+E0113", "U+E0114", "U+E0115", "U+E0116", "U+E0117", "U+E0118", "U+E0119",
    "U+E011A", "U+E011B", "U+E011C", "U+E011D", "U+E011E", "U+E011F", "U+E0120", "U+E0121", "U+E0122", "U+E0123", "U+E0124", "U+E0125",
    "U+E0126", "U+E0127", "U+E0128", "U+E0129", "U+E012A", "U+E012B", "U+E012C", "U+E012D", "U+E012E", "U+E012F", "U+E0130", "U+E0131",
    "U+E0132", "U+E0133", "U+E0134", "U+E0135", "U+E0136", "U+E0137", "U+E0138", "U+E0139", "U+E013A", "U+E013B", "U+E013C", "U+E013D",
    "U+E013E", "U+E013F", "U+E0140", "U+E0141", "U+E0142", "U+E0143", "U+E0144", "U+E0145", "U+E0146", "U+E0147", "U+E0148", "U+E0149",
    "U+E014A", "U+E014B", "U+E014C", "U+E014D", "U+E014E", "U+E014F", "U+E0150", "U+E0151", "U+E0152", "U+E0153", "U+E0154", "U+E0155",
    "U+E0156", "U+E0157", "U+E0158", "U+E0159", "U+E015A", "U+E015B", "U+E015C", "U+E015D", "U+E015E", "U+E015F", "U+E0160", "U+E0161",
    "U+E0162", "U+E0163", "U+E0164", "U+E0165", "U+E0166", "U+E0167", "U+E0168", "U+E0169", "U+E016A", "U+E016B", "U+E016C", "U+E016D",
    "U+E016E", "U+E016F", "U+E0170", "U+E0171", "U+E0172", "U+E0173", "U+E0174", "U+E0175", "U+E0176", "U+E0177", "U+E0178", "U+E0179",
    "U+E017A", "U+E017B", "U+E017C", "U+E017D", "U+E017E", "U+E017F", "U+E0180", "U+E0181", "U+E0182", "U+E0183", "U+E0184", "U+E0185",
    "U+E0186", "U+E0187", "U+E0188", "U+E0189", "U+E018A", "U+E018B", "U+E018C", "U+E018D", "U+E018E", "U+E018F", "U+E0190", "U+E0191",
    "U+E0192", "U+E0193", "U+E0194", "U+E0195", "U+E0196", "U+E0197", "U+E0198", "U+E0199", "U+E019A", "U+E019B", "U+E019C", "U+E019D",
    "U+E019E", "U+E019F", "U+E01A0", "U+E01A1", "U+E01A2", "U+E01A3", "U+E01A4", "U+E01A5", "U+E01A6", "U+E01A7", "U+E01A8", "U+E01A9",
    "U+E01AA", "U+E01AB", "U+E01AC", "U+E01AD", "U+E01AE", "U+E01AF", "U+E01B0", "U+E01B1", "U+E01B2", "U+E01B3", "U+E01B4", "U+E01B5",
    "U+E01B6", "U+E01B7", "U+E01B8", "U+E01B9", "U+E01BA", "U+E01BB", "U+E01BC", "U+E01BD", "U+E01BE", "U+E01BF", "U+E01C0", "U+E01C1",
    "U+E01C2", "U+E01C3", "U+E01C4", "U+E01C5", "U+E01C6", "U+E01C7", "U+E01C8", "U+E01C9", "U+E01CA", "U+E01CB", "U+E01CC", "U+E01CD",
    "U+E01CE", "U+E01CF", "U+E01D0", "U+E01D1", "U+E01D2", "U+E01D3", "U+E01D4", "U+E01D5", "U+E01D6", "U+E01D7", "U+E01D8", "U+E01D9",
    "U+E01DA", "U+E01DB", "U+E01DC", "U+E01DD", "U+E01DE", "U+E01DF", "U+E01E0", "U+E01E1", "U+E01E2", "U+E01E3", "U+E01E4", "U+E01E5",
    "U+E01E6", "U+E01E7", "U+E01E8", "U+E01E9", "U+E01EA", "U+E01EB", "U+E01EC", "U+E01ED", "U+E01EE", "U+E01EF"
  }

\* re._casefix._EXTRA_CASES: the lower-case characters that re.IGNORECASE
\* takes for one another beyond the case mapping
EXTRA_CASES_DE ==
  <<
    "i", "s", "µ", "U+0131", "U+017F", "U+0345", "U+0390", "U+03B0", "U+03B2", "U+03B5", "U+03B8", "U+03B9",
    "U+03BA", "U+03BC", "U+03C0", "U+03C1", "U+03C2", "U+03C3", "U+03C6", "U+03D0", "U+03D1", "U+03D5", "U+03D6", "U+03F0",
    "U+03F1", "U+03F5", "U+0432", "U+0434", "U+043E", "U+0441", "U+0442", "U+044A", "U+0463", "U+1C80", "U+1C81", "U+1C82",
    "U+1C83", "U+1C84", "U+1C85", "U+1C86", "U+1C87", "U+1C88", "U+1E61", "U+1E9B", "U+1FBE", "U+1FD3", "U+1FE3", "U+A64B",
    "U+FB05", "U+FB06"
  >>

EXTRA_CASES_A ==
  <<
    {"U+0131"}, {"U+017F"}, {"U+03BC"}, {"i"}, {"s"}, {"U+03B9", "U+1FBE"}, {"U+1FD3"}, {"U+1FE3"}, {"U+03D0"}, {"U+03F5"}, {"U+03D1"}, {"U+0345", "U+1FBE"},
    {"U+03F0"}, {"µ"}, {"U+03D6"}, {"U+03F1"}, {"U+03C3"}, {"U+03C2"}, {"U+03D5"}, {"U+03B2"}, {"U+03B8"}, {"U+03C6"}, {"U+03C0"}, {"U+03BA"},
    {"U+03C1"}, {"U+03B5"}, {"U+1C80"}, {"U+1C81"}, {"U+1C82"}, {"U+1C83"}, {"U+1C84", "U+1C85"}, {"U+1C86"}, {"U+1C87"}, {"U+0432"}, {"U+0434"}, {"U+043E"},
    {"U+0441"}, {"U+0442", "U+1C85"}, {"U+0442", "U+1C84"}, {"U+044A"}, {"U+0463"}, {"U+A64B"}, {"U+1E9B"}, {"U+1E61"}, {"U+0345", "U+03B9"}, {"U+0390"}, {"U+03B0"}, {"U+1C88"},
    {"U+FB06"}, {"U+FB05"}
  >>

\* the lower case of one character, one character long (_sre.unicode_tolower)
LowerChar(c) ==
    IF c \in CON_MINUSCULA
    THEN LOWER_A[CHOOSE k \in 1..Len(LOWER_DE) : LOWER_DE[k] = c]
    ELSE c

\* _sre.unicode_iscased: the lower case or the upper case is another character
IsCased(c) == c \in CON_MINUSCULA \/ c \in CON_MAYUSCULA

\* c is cased and not case-ignorable
CasedNoIgnorable(c) ==
    /\ c \in CON_MINUSCULA \/ c \in CON_MAYUSCULA \/ c \in OTROS_CASED
    /\ c \notin CASE_IGNORABLE

\* the last position before k, and the first one after k, that holds a
\* character that is not case-ignorable; 0 and Len(t) + 1 without one
RECURSIVE AntesDe(_, _)
AntesDe(t, k) ==
    IF k = 1 THEN 0
    ELSE IF t[k - 1] \in CASE_IGNORABLE THEN AntesDe(t, k - 1) ELSE k - 1
RECURSIVE DespuesDe(_, _)
DespuesDe(t, k) ==
    IF k = Len(t) THEN Len(t) + 1
    ELSE IF t[k + 1] \in CASE_IGNORABLE THEN DespuesDe(t, k + 1) ELSE k + 1

\* str.lower(), the capital sigma at position k: final when a cased
\* character comes before it and none after it
SigmaFinal(t, k) ==
    /\ AntesDe(t, k) # 0
    /\ CasedNoIgnorable(t[AntesDe(t, k)])
    /\ DespuesDe(t, k) > Len(t) \/ ~CasedNoIgnorable(t[DespuesDe(t, k)])

\* str.lower(), the character at position k: what it becomes
LowerEn(t, k) ==
    IF t[k] = "U+03A3" THEN (IF SigmaFinal(t, k) THEN <<"U+03C2">> ELSE <<"U+03C3">>)
    ELSE IF t[k] = "U+0130" THEN <<"i", "U+0307">>
    ELSE <<LowerChar(t[k])>>

RECURSIVE LowerDesde(_, _)
LowerDesde(t, k) == IF k > Len(t) THEN <<>> ELSE LowerEn(t, k) \o LowerDesde(t, k + 1)

\* str.lower()
Lower(t) ==
    IF \A k \in 1..Len(t) : t[k] # "U+0130"
    THEN [k \in 1..Len(t) |-> LowerEn(t, k)[1]]
    ELSE LowerDesde(t, 1)

(***************************************************************************)
(* str operations                                                          *)
(***************************************************************************)
\* sub occurs in t at position p
OccursAt(t, sub, p) ==
    /\ p + Len(sub) - 1 <= Len(t)
    /\ \A k \in 1..Len(sub) : t[p + k - 1] = sub[k]

\* sub in t
Contains(t, sub) == \E p \in 1..(Len(t) + 1) : OccursAt(t, sub, p)

\* sep.join(partes)
RECURSIVE Join(_, _)
Join(partes, sep) ==
    IF Len(partes) = 0 THEN <<>>
    ELSE IF Len(partes) = 1 THEN partes[1]
    ELSE partes[1] \o sep \o Join(Tail(partes), sep)

\* t.split(c) for a one-character separator: always at least one part.
\* The k-th part lies between the (k-1)-th and the k-th occurrence of c.
Split(t, c) ==
    LET seps == {p \in 1..Len(t) : t[p] = c}
        n == Cardinality(seps)
        Sep(k) == IF k = 0 THEN 0
                  ELSE IF k = n + 1 THEN Len(t) + 1
                  ELSE CHOOSE p \in seps : Cardinality({q \in seps : q <= p}) = k
    IN  [k \in 1..(n + 1) |-> SubSeq(t, Sep(k - 1) + 1, Sep(k) - 1)]

\* t.replace(c, nuevo) for a one-character c
Replace(t, c, nuevo) == Join(Split(t, c), nuevo)

\* t.strip()
RECURSIVE LStrip(_)
LStrip(t) == IF Len(t) > 0 /\ t[1] \in Espacio THEN LStrip(Tail(t)) ELSE t
RECURSIVE RStrip(_)
RStrip(t) ==
    IF Len(t) > 0 /\ t[Len(t)] \in Espacio
    THEN RStrip(SubSeq(t, 1, Len(t) - 1)) ELSE t
Strip(t) == RStrip(LStrip(t))

\* seq[:n] and seq[-n:]
Primeras(s, n) == SubSeq(s, 1, Min(n, Len(s)))
Ultimas(s, n) == SubSeq(s, Max(1, Len(s) - n + 1), Len(s))

(***************************************************************************)
(* Regular expressions (Python re).  A pattern is a tree:                  *)
(*   set  - one character of a set          nset - one character not of it *)
(*   cat  - concatenation                   alt  - alternation, in order   *)
(*   rep  - min..max repetitions (max = -1: unbounded), greedy or lazy     *)
(*   grp  - capturing group number n        bol / eol - ^ and $            *)
(*   sub  - group without a number          eos  - \Z, the end of the text *)
(*   pos  - possessive repetition                                          *)
(* ReM gives every way the pattern matches at position p, in the order     *)
(* the backtracking matcher tries them; the first one is the match.        *)
(***************************************************************************)
NGRUPOS == 3
SinGrupos == [g \in 1..NGRUPOS |-> <<0, 0>>]

Set(s) == [t |-> "set", s |-> s]
NSet(s) == [t |-> "nset", s |-> s]
Ch(c) == Set({c})
Cat(a) == [t |-> "cat", a |-> a]
Alt(a) == [t |-> "alt", a |-> a]
Rep(r, min, max) == [t |-> "rep", r |-> r, min |-> min, max |-> max, greedy |-> TRUE]
RepLazy(r, min, max) == [t |-> "rep", r |-> r, min |-> min, max |-> max, greedy |-> FALSE]
Plus(r) == Rep(r, 1, -1)
Star(r) == Rep(r, 0, -1)
Opt(r) == Rep(r, 0, 1)
Grp(n, r) == [t |-> "grp", n |-> n, r |-> r]
Sub(r) == [t |-> "sub", r |-> r]
Posesiva(r, min, max) == [t |-> "pos", r |-> r, min |-> min, max |-> max]
Bol == [t |-> "bol"]
Eol == [t |-> "eol"]
Eos == [t |-> "eos"]
Lit(s) == Cat([k \in 1..Len(s) |-> Ch(s[k])])
Punto == NSet({"\n"})                         \* .
Dig == Set(Digito)                            \* \d
Esp == Set(Espacio)                           \* \s

\* one character against a set, with or without re.IGNORECASE
\* Without the flag the character is in the set.  With it the set is
\* compiled: every cased character gives its lower case and the characters
\* re takes for it; a set with a cased character is tested on the lower case
\* of the character (re._compiler._compile and _optimize_charset).
Fix(lo) ==
    IF \E k \in 1..Len(EXTRA_CASES_DE) : EXTRA_CASES_DE[k] = lo
    THEN EXTRA_CASES_A[CHOOSE k \in 1..Len(EXTRA_CASES_DE) : EXTRA_CASES_DE[k] = lo]
    ELSE {}
Compilado(s) ==
    UNION {IF IsCased(x) THEN {LowerChar(x)} \cup Fix(LowerChar(x)) ELSE {x} : x \in s}
EnSet(c, s, ic) ==
    IF ic /\ \E x \in s : IsCased(x)
    THEN LowerChar(c) \in Compilado(s)
    ELSE c \in s

\* the ways rs without the ways that come a second time: what follows a
\* way that failed fails again, so the first match is the same
Unicos(rs) ==
    IF Len(rs) <= 1 THEN rs
    ELSE LET primeros == {k \in 1..Len(rs) : \A j \in 1..(k - 1) : rs[j] # rs[k]}
         IN  [n \in 1..Cardinality(primeros) |->
                 rs[CHOOSE k \in primeros : Cardinality({j \in primeros : j <= k}) = n]]

\* a set of characters, what re._compiler._simple takes for a body of one
\* character; c is in it
Simple(n) == n.t \in {"set", "nset"}
Casa(n, c, ic) == IF n.t = "set" THEN EnSet(c, n.s, ic) ELSE ~EnSet(c, n.s, ic)

\* _sre REPEAT_ONE and MIN_REPEAT_ONE: the repetition of a set of
\* characters.  The characters from p in the set are counted, up to the
\* maximum; greedy gives the counts from that one down to the minimum,
\* lazy from the minimum up
ReUno(r, min, max, greedy, t, p, c, ic) ==
    LET tope == IF max = -1 THEN Len(t) - p + 1 ELSE Min(max, Len(t) - p + 1)
        Vias(n) ==
            IF n < min THEN <<>>
            ELSE [k \in 1..(n - min + 1) |->
                     [p |-> IF greedy THEN p + n - k + 1 ELSE p + min + k - 1, c |-> c]]
        Cuenta(malos) ==
            IF malos = {} THEN tope ELSE CHOOSE k \in malos : \A j \in malos : k <= j
    IN  Vias(Cuenta({k \in 0..(tope - 1) : ~Casa(r, t[p + k], ic)}))

RECURSIVE ReM(_, _, _, _, _)
RECURSIVE ReCat(_, _, _, _, _, _)
RECURSIVE ReAlt(_, _, _, _, _, _)
RECURSIVE ReRep(_, _, _, _, _, _, _, _, _)
RECURSIVE RePos(_, _, _, _, _, _, _, _)
RECURSIVE ReCadaCat(_, _, _, _, _, _)
RECURSIVE ReCadaRep(_, _, _, _, _, _, _, _, _)
\* the count left of a repetition after one more, -1 being no limit
Menos(max) == IF max = -1 THEN -1 ELSE max - 1

ReM(n, t, p, c, ic) ==
    CASE n.t = "set" ->
            IF p <= Len(t) /\ EnSet(t[p], n.s, ic)
            THEN <<[p |-> p + 1, c |-> c]>> ELSE <<>>
      [] n.t = "nset" ->
            IF p <= Len(t) /\ ~EnSet(t[p], n.s, ic)
            THEN <<[p |-> p + 1, c |-> c]>> ELSE <<>>
      [] n.t = "cat" -> ReCat(n.a, 1, t, p, c, ic)
      [] n.t = "alt" -> ReAlt(n.a, 1, t, p, c, ic)
      [] n.t = "rep" ->
            IF Simple(n.r) THEN ReUno(n.r, n.min, n.max, n.greedy, t, p, c, ic)
            ELSE ReRep(n.r, n.min, n.max, n.greedy, t, p, c, ic, 0)
      [] n.t = "grp" ->
            LET rs == ReM(n.r, t, p, c, ic)
            IN  [k \in 1..Len(rs) |->
                    [p |-> rs[k].p, c |-> [rs[k].c EXCEPT ![n.n] = <<p, rs[k].p>>]]]
      [] n.t = "sub" -> ReM(n.r, t, p, c, ic)
      [] n.t = "pos" ->
            IF Simple(n.r) THEN Primeras(ReUno(n.r, n.min, n.max, TRUE, t, p, c, ic), 1)
            ELSE RePos(n.r, n.min, n.max, t, p, c, ic, 0)
      [] n.t = "bol" -> IF p = 1 THEN <<[p |-> p, c |-> c]>> ELSE <<>>
      [] n.t = "eos" -> IF p = Len(t) + 1 THEN <<[p |-> p, c |-> c]>> ELSE <<>>
      [] n.t = "eol" ->
            IF p = Len(t) + 1 \/ (p = Len(t) /\ t[p] = NL)
            THEN <<[p |-> p, c |-> c]>> ELSE <<>>

\* the rest of a concatenation, from each way rs[k..] its head matched
ReCadaCat(rs, k, a, q, t, ic) ==
    IF k > Len(rs) THEN <<>>
    ELSE ReCat(a, q, t, rs[k].p, rs[k].c, ic) \o ReCadaCat(rs, k + 1, a, q, t, ic)

ReCat(a, q, t, p, c, ic) ==
    IF q > Len(a) THEN <<[p |-> p, c |-> c]>>
    ELSE ReCadaCat(ReM(a[q], t, p, c, ic), 1, a, q + 1, t, ic)

ReAlt(a, q, t, p, c, ic) ==
    IF q > Len(a) THEN <<>>
    ELSE ReM(a[q], t, p, c, ic) \o ReAlt(a, q + 1, t, p, c, ic)

\* the repetition goes on from each way rs[k..] one more repetition matched
ReCadaRep(rs, k, last, r, min, max, greedy, t, ic) ==
    IF k > Len(rs) THEN <<>>
    ELSE ReRep(r, min, max, greedy, t, rs[k].p, rs[k].c, ic, last)
         \o ReCadaRep(rs, k + 1, last, r, min, max, greedy, t, ic)

\* _sre MAX_UNTIL and MIN_UNTIL, with min and max what is left of the counts.  Below the
\* minimum the body has to match once more.  From the minimum on the
\* repetition may end here, and the body is tried once more unless the
\* maximum is reached or the position is last, the position the repetition
\* before this one started at (0: none): a repetition that matched the
\* empty text is followed by the end of the loop only
ReRep(r, min, max, greedy, t, p, c, ic, last) ==
    LET mas == IF min > 0
               THEN ReCadaRep(ReM(r, t, p, c, ic), 1, last, r, min - 1, Menos(max),
                              greedy, t, ic)
               ELSE IF max # 0 /\ p # last
               THEN ReCadaRep(ReM(r, t, p, c, ic), 1, p, r, 0, Menos(max), greedy, t, ic)
               ELSE <<>>
        alto == IF min = 0 THEN <<[p |-> p, c |-> c]>> ELSE <<>>
    IN  Unicos(IF greedy THEN mas \o alto ELSE alto \o mas)

\* _sre POSSESSIVE_REPEAT: each repetition takes the first way the body matches and is
\* never given up; the loop ends when the body does not match, at the
\* maximum, or after a repetition that matched the empty text
RePos(r, min, max, t, p, c, ic, last) ==
    LET Una(rs) ==
            IF min > 0
            THEN IF Len(rs) = 0 THEN <<>>
                 ELSE RePos(r, min - 1, Menos(max), t, rs[1].p, rs[1].c, ic, 0)
            ELSE IF Len(rs) = 0 THEN <<[p |-> p, c |-> c]>>
            ELSE RePos(r, 0, Menos(max), t, rs[1].p, rs[1].c, ic, p)
    IN  IF min = 0 /\ (max = 0 \/ p = last) THEN <<[p |-> p, c |-> c]>>
        ELSE Una(ReM(r, t, p, c, ic))

\* a match object: where it starts and ends (end exclusive) and its groups
NoMatch == [ok |-> FALSE, s |-> 0, e |-> 0, c |-> SinGrupos]

\* the match object of the first of the ways rs the pattern matches from s
MatchEn(rs, s) ==
    IF Len(rs) = 0 THEN NoMatch
    ELSE [ok |-> TRUE, s |-> s, e |-> rs[1].p, c |-> rs[1].c]

\* re.match(patron, t, flags): anchored at the first character
ReMatch(patron, t, ic) == MatchEn(ReM(patron, t, 1, SinGrupos, ic), 1)

\* re.search(patron, t, flags): the leftmost position with a match
ReSearch(patron, t, ic) ==
    LET Vias(p) == ReM(patron, t, p, SinGrupos, ic)
        Primera(donde) == IF donde = {} THEN 0
                          ELSE CHOOSE p \in donde : \A q \in donde : p <= q
        En(p) == IF p = 0 THEN NoMatch ELSE MatchEn(Vias(p), p)
    IN  En(Primera({p \in 1..(Len(t) + 1) : Len(Vias(p)) > 0}))

\* match.group(n) and match.group()
Group(t, m, n) == SubSeq(t, m.c[n][1], m.c[n][2] - 1)
Group0(t, m) == SubSeq(t, m.s, m.e - 1)

(***************************************************************************)
(* re.compile: the pattern a text stands for (re._parser, no flags).       *)
(* Read here: literals, . ^ $ |, groups ( ) and (?: ), the repetitions     *)
(* * + ? {m,n} with their lazy and possessive forms, sets [ ] with ranges  *)
(* over U+0000..U+00FF, and the escapes \d \D \s \S \A \Z \a \f \n \r \t   *)
(* \v and of a character that is not an ASCII letter or digit.  The result *)
(* has e = "error" where re.compile raises re.error, and e = "otro" at the *)
(* first construct that is not read here (other (? groups, \w \W \b \B, \x *)
(* \u \U \N, \ and a digit, a range beyond U+00FF, a count of more than    *)
(* two digits): nothing is said about such a pattern.                      *)
(***************************************************************************)
\* the characters U+0000..U+00FF in code point order
LATIN1 ==
  <<
    "U+0000", "U+0001", "U+0002", "U+0003", "U+0004", "U+0005", "U+0006", "U+0007", "U+0008", "\t", "\n", "U+000B", "\f", "\r", "U+000E", "U+000F",
    "U+0010", "U+0011", "U+0012", "U+0013", "U+0014", "U+0015", "U+0016", "U+0017", "U+0018", "U+0019", "U+001A", "U+001B", "U+001C", "U+001D", "U+001E", "U+001F",
    " ", "!", "\"", "#", "$", "%", "&", "'", "(", ")", "*", "+", ",", "-", ".", "/",
    "0", "1", "2", "3", "4", "5", "6", "7", "8", "9", ":", ";", "<", "=", ">", "?",
    "@", "A", "B", "C", "D", "E", "F", "G", "H", "I", "J", "K", "L", "M", "N", "O",
    "P", "Q", "R", "S", "T", "U", "V", "W", "X", "Y", "Z", "[", "\\", "]", "^", "_",
    "U+0060", "a", "b", "c", "d", "e", "f", "g", "h", "i", "j", "k", "l", "m", "n", "o",
    "p", "q", "r", "s", "t", "u", "v", "w", "x", "y", "z", "{", "|", "}", "~", "U+007F",
    "U+0080", "U+0081", "U+0082", "U+0083", "U+0084", "U+0085", "U+0086", "U+0087", "U+0088", "U+0089", "U+008A", "U+008B", "U+008C", "U+008D", "U+008E", "U+008F",
    "U+0090", "U+0091", "U+0092", "U+0093", "U+0094", "U+0095", "U+0096", "U+0097", "U+0098", "U+0099", "U+009A", "U+009B", "U+009C", "U+009D", "U+009E", "U+009F",
    "U+00A0", "¡", "¢", "£", "¤", "¥", "¦", "§", "¨", "©", "ª", "«", "¬", "U+00AD", "®", "¯",
    "°", "±", "²", "³", "´", "µ", "¶", "·", "¸", "¹", "º", "»", "¼", "½", "¾", "¿",
    "À", "Á", "Â", "Ã", "Ä", "Å", "Æ", "Ç", "È", "É", "Ê", "Ë", "Ì", "Í", "Î", "Ï",
    "Ð", "Ñ", "Ò", "Ó", "Ô", "Õ", "Ö", "×", "Ø", "Ù", "Ú", "Û", "Ü", "Ý", "Þ", "ß",
    "à", "á", "â", "ã", "ä", "å", "æ", "ç", "è", "é", "ê", "ë", "ì", "í", "î", "ï",
    "ð", "ñ", "ò", "ó", "ô", "õ", "ö", "÷", "ø", "ù", "ú", "û", "ü", "ý", "þ", "ÿ"
  >>
CodigoLatin1(c) == (CHOOSE k \in 1..256 : LATIN1[k] = c) - 1
EsLatin1(c) == \E k \in 1..256 : LATIN1[k] = c

ASCII_DIGITS == <<"0", "1", "2", "3", "4", "5", "6", "7", "8", "9">>
ASCII_LETTERS == AZ \cup az

\* the character at position p of the pattern, "" past its end
En(t, p) == IF p <= Len(t) THEN t[p] ELSE ""

Hecho(n, p) == [e |-> "", n |-> n, p |-> p]
Falla(e) == [e |-> e, n |-> Cat(<<>>), p |-> 0]

\* the position after the ASCII digits that start at p
RECURSIVE TrasDigitos(_, _)
TrasDigitos(t, p) ==
    IF En(t, p) \in Rango(ASCII_DIGITS, 1, 10) THEN TrasDigitos(t, p + 1) ELSE p

\* _escape: the escape whose backslash is at position p, outside a set
Escape(t, p) ==
    LET c == En(t, p + 1)
    IN  CASE c = "" -> Falla("error")
          [] c = "d" -> Hecho(Dig, p + 2)
          [] c = "D" -> Hecho(NSet(Digito), p + 2)
          [] c = "s" -> Hecho(Esp, p + 2)
          [] c = "S" -> Hecho(NSet(Espacio), p + 2)
          [] c = "A" -> Hecho(Bol, p + 2)
          [] c = "Z" -> Hecho(Eos, p + 2)
          [] c = "a" -> Hecho(Ch(LATIN1[8]), p + 2)
          [] c = "f" -> Hecho(Ch("\f"), p + 2)
          [] c = "n" -> Hecho(Ch("\n"), p + 2)
          [] c = "r" -> Hecho(Ch("\r"), p + 2)
          [] c = "t" -> Hecho(Ch("\t"), p + 2)
          [] c = "v" -> Hecho(Ch(LATIN1[12]), p + 2)
          [] c \in {"w", "W", "b", "B", "x", "u", "U", "N"} -> Falla("otro")
          [] c \in Rango(ASCII_DIGITS, 1, 10) -> Falla("otro")
          [] c \in ASCII_LETTERS -> Falla("error")
          [] OTHER -> Hecho(Ch(c), p + 2)

\* _class_escape: the escape whose backslash is at position p, in a set.
\* n is the set of characters it stands for; lit tells a single character
ClassEscape(t, p) ==
    LET c == En(t, p + 1)
        Uno(x) == [e |-> "", n |-> {x}, lit |-> TRUE, p |-> p + 2]
        Mal(e) == [e |-> e, n |-> {}, lit |-> FALSE, p |-> 0]
    IN  CASE c = "" -> Mal("error")
          [] c = "d" -> [e |-> "", n |-> Digito, lit |-> FALSE, p |-> p + 2]
          [] c = "s" -> [e |-> "", n |-> Espacio, lit |-> FALSE, p |-> p + 2]
          [] c = "a" -> Uno(LATIN1[8])
          [] c = "b" -> Uno(LATIN1[9])
          [] c = "f" -> Uno("\f")
          [] c = "n" -> Uno("\n")
          [] c = "r" -> Uno("\r")
          [] c = "t" -> Uno("\t")
          [] c = "v" -> Uno(LATIN1[12])
          [] c \in {"D", "S", "w", "W", "x", "u", "U", "N"} -> Mal("otro")
          [] c \in Rango(ASCII_DIGITS, 1, 8) -> Mal("otro")
          [] c \in {"8", "9"} -> Mal("error")
          [] c \in ASCII_LETTERS -> Mal("error")
          [] OTHER -> Uno(c)

\* one member of a set at position p: an escape or a character
Miembro(t, p) ==
    IF En(t, p) = "\\" THEN ClassEscape(t, p)
    ELSE [e |-> "", n |-> {En(t, p)}, lit |-> TRUE, p |-> p + 1]

\* the set whose members start at position p, s holding those read so far
\* and vacio telling that none was read
RECURSIVE Clase(_, _, _, _, _)
Clase(t, p, s, vacio, negada) ==
    LET c == En(t, p)
        \* the range from the character of m1 to the one of m2, read up to q
        Rango_(lo, hi, q) ==
            IF lo = hi THEN Clase(t, q, s \cup {lo}, FALSE, negada)
            ELSE IF ~EsLatin1(lo) \/ ~EsLatin1(hi) THEN Falla("otro")
            ELSE IF CodigoLatin1(hi) < CodigoLatin1(lo) THEN Falla("error")
            ELSE Clase(t, q,
                       s \cup {LATIN1[k + 1] : k \in CodigoLatin1(lo)..CodigoLatin1(hi)},
                       FALSE, negada)
        \* m1 and "-" are followed by the member m2
        Hasta(m1, m2) ==
            IF m2.e # "" THEN Falla(m2.e)
            ELSE IF ~m1.lit \/ ~m2.lit THEN Falla("error")
            ELSE Rango_(CHOOSE x \in m1.n : TRUE, CHOOSE x \in m2.n : TRUE, m2.p)
        \* the member m1 was read
        Tras(m1) ==
            IF m1.e # "" THEN Falla(m1.e)
            ELSE IF En(t, m1.p) # "-" THEN Clase(t, m1.p, s \cup m1.n, FALSE, negada)
            ELSE IF En(t, m1.p + 1) = "" THEN Falla("error")
            ELSE IF En(t, m1.p + 1) = "]"
            THEN Hecho(IF negada THEN NSet(s \cup m1.n \cup {"-"})
                                 ELSE Set(s \cup m1.n \cup {"-"}), m1.p + 2)
            ELSE Hasta(m1, Miembro(t, m1.p + 1))
    IN  IF c = "" THEN Falla("error")
        ELSE IF c = "]" /\ ~vacio
        THEN Hecho(IF negada THEN NSet(s) ELSE Set(s), p + 1)
        ELSE Tras(Miembro(t, p))

\* int(s) of ASCII digits
RECURSIVE EnteroAscii(_)
EnteroAscii(s) ==
    IF Len(s) = 0 THEN 0
    ELSE EnteroAscii(SubSeq(s, 1, Len(s) - 1)) * 10
         + (CHOOSE d \in 0..9 : ASCII_DIGITS[d + 1] = s[Len(s)])

\* the repetition that starts at position p: lit tells a { that is an
\* ordinary character; else min and max (-1: no limit) and the position q
\* after it
Repeticion(t, p) ==
    LET c == En(t, p)
        Cuenta(min, max, q) == [e |-> "", lit |-> FALSE, min |-> min, max |-> max, q |-> q]
        Literal == [e |-> "", lit |-> TRUE, min |-> 0, max |-> 0, q |-> p + 1]
    IN  CASE c = "?" -> Cuenta(0, 1, p + 1)
          [] c = "*" -> Cuenta(0, -1, p + 1)
          [] c = "+" -> Cuenta(1, -1, p + 1)
          [] OTHER ->
                IF En(t, p + 1) = "}" THEN Literal
                ELSE LET q1 == TrasDigitos(t, p + 1)
                         lo == SubSeq(t, p + 1, q1 - 1)
                         coma == En(t, q1) = ","
                         q2 == IF coma THEN TrasDigitos(t, q1 + 1) ELSE q1
                         hi == IF coma THEN SubSeq(t, q1 + 1, q2 - 1) ELSE lo
                     IN  IF En(t, q2) # "}" THEN Literal
                         ELSE IF Len(lo) > 2 \/ Len(hi) > 2
                         THEN [e |-> "otro", lit |-> FALSE, min |-> 0, max |-> 0, q |-> 0]
                         ELSE IF Len(hi) > 0 /\ Len(lo) > 0 /\ EnteroAscii(hi) < EnteroAscii(lo)
                         THEN [e |-> "error", lit |-> FALSE, min |-> 0, max |-> 0, q |-> 0]
                         ELSE Cuenta(IF Len(lo) > 0 THEN EnteroAscii(lo) ELSE 0,
                                     IF Len(hi) > 0 THEN EnteroAscii(hi) ELSE -1, q2 + 1)

\* _parse_sub and _parse: the alternatives from position p, and one
\* alternative from position p with the items acc read so far
RECURSIVE ParseSub(_, _)
RECURSIVE Parse(_, _, _)
ParseSub(t, p) ==
    LET \* the alternative r is followed by the alternatives r2
        Otras(r, r2) == IF r2.e # "" THEN r2 ELSE Hecho(Alt(<<r.n>> \o r2.n.a), r2.p)
        \* the alternative r was read
        Una(r) ==
            IF r.e # "" THEN r
            ELSE IF En(t, r.p) # "|" THEN Hecho(Alt(<<r.n>>), r.p)
            ELSE Otras(r, ParseSub(t, r.p + 1))
    IN  Una(Parse(t, p, <<>>))

Parse(t, p, acc) ==
    LET c == En(t, p)
        Sigue(r) == IF r.e # "" THEN r ELSE Parse(t, r.p, Append(acc, r.n))
        Cerrar(r) ==
            IF r.e # "" THEN r
            ELSE IF En(t, r.p) # ")" THEN Falla("error")
            ELSE Parse(t, r.p + 1, Append(acc, Sub(r.n)))
        Grupo(q) == Cerrar(ParseSub(t, q))
        \* the repetition r follows the items read
        Repetir(r) ==
            IF r.e # "" THEN Falla(r.e)
            ELSE IF r.lit THEN Parse(t, p + 1, Append(acc, Ch("{")))
            ELSE IF Len(acc) = 0 THEN Falla("error")
            ELSE LET item == acc[Len(acc)]
                     antes == SubSeq(acc, 1, Len(acc) - 1)
                 IN  IF item.t \in {"bol", "eol", "eos", "rep", "pos"} THEN Falla("error")
                     ELSE IF En(t, r.q) = "?"
                     THEN Parse(t, r.q + 1, Append(antes, RepLazy(item, r.min, r.max)))
                     ELSE IF En(t, r.q) = "+"
                     THEN Parse(t, r.q + 1, Append(antes, Posesiva(item, r.min, r.max)))
                     ELSE Parse(t, r.q, Append(antes, Rep(item, r.min, r.max)))
    IN  CASE c \in {"", "|", ")"} -> Hecho(Cat(acc), p)
          [] c = "\\" -> Sigue(Escape(t, p))
          [] c = "[" -> Sigue(IF En(t, p + 1) = "^" THEN Clase(t, p + 2, {}, TRUE, TRUE)
                                                   ELSE Clase(t, p + 1, {}, TRUE, FALSE))
          [] c \in {"*", "+", "?", "{"} -> Repetir(Repeticion(t, p))
          [] c = "." -> Parse(t, p + 1, Append(acc, Punto))
          [] c = "(" ->
                IF En(t, p + 1) # "?" THEN Grupo(p + 1)
                ELSE IF En(t, p + 2) = ":" THEN Grupo(p + 3)
                ELSE Falla("otro")
          [] c = "^" -> Parse(t, p + 1, Append(acc, Bol))
          [] c = "$" -> Parse(t, p + 1, Append(acc, Eol))
          [] OTHER -> Parse(t, p + 1, Append(acc, Ch(c)))

\* re.compile(pat): a ) left over is an error
re_compile(pat) ==
    LET Fin(r) == IF r.e # "" THEN r
                  ELSE IF r.p <= Len(pat) THEN Falla("error")
                  ELSE r
    IN  Fin(ParseSub(pat, 1))

(***************************************************************************)
(* BoletinPDFProcessor.__init__: the patterns                              *)
(***************************************************************************)
\* \s+(?:N[°º]\s*)?(\d+(?:/\d{4})?), the tail shared by the five type patterns
PatronNumero ==
    <<Plus(Esp),
      Opt(Cat(<<Ch("N"), Set({"°", "º"}), Star(Esp)>>)),
      Grp(1, Cat(<<Plus(Dig), Opt(Cat(<<Ch("/"), Rep(Dig, 4, 4)>>))>>))>>

\* self.tipos_documentos, in the order of the dict
tipos_documentos ==
    <<[tipo |-> "LEY",
       patron |-> Cat(<<Lit(<<"L", "E", "Y">>)>> \o PatronNumero)],
      [tipo |-> "DECRETO",
       patron |-> Cat(<<Lit(<<"D", "E", "C", "R", "E", "T", "O">>)>> \o PatronNumero)],
      [tipo |-> "RESOLUCIÓN",
       patron |-> Cat(<<Lit(<<"R", "E", "S", "O", "L", "U", "C", "I", "Ó", "N">>)>> \o PatronNumero)],
      [tipo |-> "DISPOSICIÓN",
       patron |-> Cat(<<Lit(<<"D", "I", "S", "P", "O", "S", "I", "C", "I", "Ó", "N">>)>> \o PatronNumero)],
      [tipo |-> "DECISIÓN ADMINISTRATIVA",
       patron |-> Cat(<<Lit(<<"D", "E", "C", "I", "S", "I", "Ó", "N">>), Plus(Esp),
                        Lit(<<"A", "D", "M", "I", "N", "I", "S", "T", "R", "A", "T", "I", "V", "A">>)>> \o PatronNumero)]>>

TIPOS == {tipos_documentos[k].tipo : k \in 1..Len(tipos_documentos)}

\* \d{2}/\d{2}/\d{4}
PatronDDMMAAAA ==
    <<Rep(Dig, 2, 2), Ch("/"), Rep(Dig, 2, 2), Ch("/"), Rep(Dig, 4, 4)>>

\* self.patrones['codigo_hash']: #[IF]\d+[IF]#
patron_codigo_hash ==
    Cat(<<Ch("#"), Set({"I", "F"}), Plus(Dig), Set({"I", "F"}), Ch("#")>>)

\* self.patrones['codigo_publicacion']:
\* e\.\s+\d{2}/\d{2}/\d{4}\s+N°\s+\d+/\d{2}\s+v\.\s+\d{2}/\d{2}/\d{4}
patron_codigo_publicacion ==
    Cat(<<Ch("e"), Ch("."), Plus(Esp)>> \o PatronDDMMAAAA
        \o <<Plus(Esp), Ch("N"), Ch("°"), Plus(Esp), Plus(Dig), Ch("/"),
             Rep(Dig, 2, 2), Plus(Esp), Ch("v"), Ch("."), Plus(Esp)>>
        \o PatronDDMMAAAA)

\* self.patrones['identificador']: [A-Z]+-\d{4}-\d+-[A-Z]+-[A-Z]+
patron_identificador ==
    Cat(<<Plus(Set(AZ)), Ch("-"), Rep(Dig, 4, 4), Ch("-"), Plus(Dig), Ch("-"),
          Plus(Set(AZ)), Ch("-"), Plus(Set(AZ))>>)

\* _extraer_fecha: the two patterns, in order
patrones_fecha ==
    <<Cat(<<Lit(<<"C", "i", "u", "d", "a", "d", " ", "d", "e", " ", "B", "u", "e", "n", "o", "s", " ", "A", "i", "r", "e", "s", ",">>), Star(Esp),
            Grp(1, Cat(<<Rep(Dig, 1, 2), Plus(Esp), Lit(<<"d", "e">>), Plus(Esp),
                         Plus(Set(AZ \cup az \cup AZacento \cup azacento)),
                         Plus(Esp), Lit(<<"d", "e">>), Plus(Esp), Rep(Dig, 4, 4)>>))>>),
      Grp(1, Cat(PatronDDMMAAAA))>>

\* _extraer_organismo: the three patterns, in order
patrones_organismo ==
    <<Cat(<<Lit(<<"M", "I", "N", "I", "S", "T", "E", "R", "I", "O">>), Plus(Esp), Lit(<<"D", "E">>), Plus(Esp),
            Plus(Set(AZacento \cup Espacio))>>),
      Cat(<<Lit(<<"S", "E", "C", "R", "E", "T", "A", "R", "Í", "A">>), Plus(Esp), Plus(Set(AZacento \cup Espacio))>>),
      Cat(<<Lit(<<"P", "R", "E", "S", "I", "D", "E", "N", "C", "I", "A">>), Plus(Esp), Lit(<<"D", "E">>), Plus(Esp), Lit(<<"L", "A">>),
            Plus(Esp), Lit(<<"N", "A", "C", "I", "Ó", "N">>)>>)>>

\* _extraer_firmantes: ^[A-ZÁÉÍÓÚÑ][a-záéíóúñ]+(\s+[A-ZÁÉÍÓÚÑ][a-záéíóúñ]+)+$
patron_firmante ==
    Cat(<<Bol, Set(AZacento), Plus(Set(azacento)),
          Plus(Grp(1, Cat(<<Plus(Esp), Set(AZacento), Plus(Set(azacento))>>))),
          Eol>>)

TituloLineas == 5
TituloLargo == 10
FirmantesLineas == 10

(***************************************************************************)
(* BoletinPDFProcessor: detection and field extraction                     *)
(***************************************************************************)
\* self.tipos_documentos.get(tipo)
RECURSIVE PatronDeTipoDesde(_, _)
PatronDeTipoDesde(tipo, k) ==
    IF k > Len(tipos_documentos) THEN None
    ELSE IF tipos_documentos[k].tipo = tipo THEN Some(tipos_documentos[k].patron)
    ELSE PatronDeTipoDesde(tipo, k + 1)
PatronDeTipo(tipo) == PatronDeTipoDesde(tipo, 1)

\* _detectar_inicio_documento with re.search in the place of re.match
RECURSIVE DetectarDesde_search(_, _)
DetectarDesde_search(linea_, k) ==
    IF k > Len(tipos_documentos) THEN None
    ELSE IF ReSearch(tipos_documentos[k].patron, linea_, TRUE).ok
         THEN Some(tipos_documentos[k].tipo)
         ELSE DetectarDesde_search(linea_, k + 1)

\* _detectar_inicio_documento: the first type whose pattern matches at the
\* start of the line, ignoring case
RECURSIVE DetectarDesde(_, _)
DetectarDesde(linea, k) ==
    IF k > Len(tipos_documentos) THEN None
    ELSE IF ReMatch(tipos_documentos[k].patron, linea, TRUE).ok
         THEN Some(tipos_documentos[k].tipo)
         ELSE DetectarDesde(linea, k + 1)
detectar_inicio_documento(linea) == DetectarDesde(linea, 1)

\* _extraer_numero_documento: re.search of the type pattern, case-sensitive
extraer_numero_documento(tipo, texto) ==
    LET patron == PatronDeTipo(tipo)
    IN  IF patron.some
        THEN LET m == ReSearch(patron.v, texto, FALSE)
             IN  IF m.ok THEN Some(Group(texto, m, 1)) ELSE None
        ELSE None

\* _extraer_identificador
extraer_identificador(texto) ==
    LET m == ReSearch(patron_identificador, texto, FALSE)
    IN  IF m.ok THEN Some(Group0(texto, m)) ELSE None

\* _extraer_fecha
RECURSIVE ExtraerFechaDesde(_, _)
ExtraerFechaDesde(texto, k) ==
    IF k > Len(patrones_fecha) THEN None
    ELSE LET m == ReSearch(patrones_fecha[k], texto, FALSE)
         IN  IF m.ok THEN Some(Group(texto, m, 1))
             ELSE ExtraerFechaDesde(texto, k + 1)
extraer_fecha(texto) == ExtraerFechaDesde(texto, 1)

\* _extraer_titulo: the first of the first five lines with a hyphen and
\* more than ten characters
RECURSIVE ExtraerTituloDesde(_, _)
ExtraerTituloDesde(lineas, k) ==
    IF k > Len(lineas) THEN None
    ELSE IF Contains(lineas[k], <<"-">>) /\ Len(lineas[k]) > TituloLargo
         THEN Some(Strip(lineas[k]))
         ELSE ExtraerTituloDesde(lineas, k + 1)
extraer_titulo(texto) ==
    ExtraerTituloDesde(Primeras(Split(texto, NL), TituloLineas), 1)

\* _extraer_organismo
RECURSIVE ExtraerOrganismoDesde(_, _)
ExtraerOrganismoDesde(texto, k) ==
    IF k > Len(patrones_organismo) THEN None
    ELSE LET m == ReSearch(patrones_organismo[k], texto, FALSE)
         IN  IF m.ok THEN Some(Strip(Group0(texto, m)))
             ELSE ExtraerOrganismoDesde(texto, k + 1)
extraer_organismo(texto) == ExtraerOrganismoDesde(texto, 1)

\* _extraer_firmantes matching names without regard to case
RECURSIVE ExtraerFirmantesSinCajaDesde(_, _)
ExtraerFirmantesSinCajaDesde(lineas, k) ==
    IF k > Len(lineas) THEN <<>>
    ELSE (IF ReMatch(patron_firmante, lineas[k], TRUE).ok
          THEN <<Strip(lineas[k])>> ELSE <<>>)
         \o ExtraerFirmantesSinCajaDesde(lineas, k + 1)
extraer_firmantes_sin_caja(texto) ==
    ExtraerFirmantesSinCajaDesde(Ultimas(Split(texto, NL), FirmantesLineas), 1)

\* _extraer_firmantes: the lines, among the last ten, that look like a name
RECURSIVE ExtraerFirmantesDesde(_, _)
ExtraerFirmantesDesde(lineas, k) ==
    IF k > Len(lineas) THEN <<>>
    ELSE (IF ReMatch(patron_firmante, lineas[k], FALSE).ok
          THEN <<Strip(lineas[k])>> ELSE <<>>)
         \o ExtraerFirmantesDesde(lineas, k + 1)
extraer_firmantes(texto) ==
    ExtraerFirmantesDesde(Ultimas(Split(texto, NL), FirmantesLineas), 1)

\* _extraer_codigo_publicacion
extraer_codigo_publicacion(texto) ==
    LET m == ReSearch(patron_codigo_publicacion, texto, FALSE)
    IN  IF m.ok THEN Some(Group0(texto, m)) ELSE None

\* _extraer_codigo_hash
extraer_codigo_hash(texto) ==
    LET m == ReSearch(patron_codigo_hash, texto, FALSE)
    IN  IF m.ok THEN Some(Group0(texto, m)) ELSE None

\* "ANEXO" in texto and "web" in texto.lower()
tiene_anexo_web(texto) ==
    Contains(texto, <<"A", "N", "E", "X", "O">>) /\ Contains(Lower(texto), <<"w", "e", "b">>)

\* _procesar_documento keeping the text with its line breaks flattened
procesar_documento_aplanado(tipo, texto) ==
    [tipo_documento |-> tipo,
     numero_documento |-> extraer_numero_documento(tipo, texto),
     identificador |-> extraer_identificador(texto),
     fecha |-> extraer_fecha(texto),
     titulo |-> extraer_titulo(texto),
     organismo_emisor |-> extraer_organismo(texto),
     contenido |-> Replace(texto, NL, <<" ">>),
     firmantes |-> extraer_firmantes(texto),
     codigo_publicacion |-> extraer_codigo_publicacion(texto),
     codigo_hash |-> extraer_codigo_hash(texto),
     tiene_anexo_web |-> tiene_anexo_web(texto)]

\* _procesar_documento
procesar_documento(tipo, texto) ==
    [tipo_documento |-> tipo,
     numero_documento |-> extraer_numero_documento(tipo, texto),
     identificador |-> extraer_identificador(texto),
     fecha |-> extraer_fecha(texto),
     titulo |-> extraer_titulo(texto),
     organismo_emisor |-> extraer_organismo(texto),
     contenido |-> texto,
     firmantes |-> extraer_firmantes(texto),
     codigo_publicacion |-> extraer_codigo_publicacion(texto),
     codigo_hash |-> extraer_codigo_hash(texto),
     tiene_anexo_web |-> tiene_anexo_web(texto)]


(***************************************************************************)
(* The classifier and the account matching                                 *)
(***************************************************************************)
\* lines 443-454 without the break of line 452: every keyword contained is
\* recorded
clasificar_documento_sin_break(texto, temas_) ==
    LET RECURSIVE Palabras(_, _)
        Palabras(tema_data, q) ==
            IF q > Len(tema_data.palabras_clave) THEN <<>>
            ELSE (IF Contains(Lower(texto), tema_data.palabras_clave[q])
                  THEN <<[tema |-> tema_data.tema,
                          palabra_encontrada |-> tema_data.palabras_clave[q]]>>
                  ELSE <<>>)
                 \o Palabras(tema_data, q + 1)
        RECURSIVE Desde(_)
        Desde(k) ==
            IF k > Len(temas_) THEN <<>>
            ELSE Palabras(temas_[k], 1) \o Desde(k + 1)
    IN  Desde(1)

\* lines 445-452: the first keyword of the topic contained in the text
RECURSIVE PrimeraPalabra(_, _, _)
PrimeraPalabra(tema_data, texto_lower, q) ==
    IF q > Len(tema_data.palabras_clave) THEN <<>>
    ELSE IF Contains(texto_lower, tema_data.palabras_clave[q])
         THEN <<[tema |-> tema_data.tema,
                 palabra_encontrada |-> tema_data.palabras_clave[q]]>>
         ELSE PrimeraPalabra(tema_data, texto_lower, q + 1)

\* lines 443-454: the topics in the order of self.temas.values()
RECURSIVE ClasificarDesde(_, _, _)
ClasificarDesde(texto_lower, temas_, k) ==
    IF k > Len(temas_) THEN <<>>
    ELSE PrimeraPalabra(temas_[k], texto_lower, 1)
         \o ClasificarDesde(texto_lower, temas_, k + 1)

\* _clasificar_documento
clasificar_documento(texto, temas_) == ClasificarDesde(Lower(texto), temas_, 1)

\* example.py, clasificar_noticia: lines 180-188
RECURSIVE PrimeraPalabraNoticia(_, _, _)
PrimeraPalabraNoticia(tema_data, titulo, q) ==
    IF q > Len(tema_data.palabras_clave) THEN <<>>
    ELSE IF Contains(titulo, tema_data.palabras_clave[q])
         THEN <<[tema |-> tema_data.tema,
                 palabra_encontrada |-> tema_data.palabras_clave[q]]>>
         ELSE PrimeraPalabraNoticia(tema_data, titulo, q + 1)

\* example.py, clasificar_noticia: lines 178-190
RECURSIVE ClasificarNoticiaDesde(_, _, _)
ClasificarNoticiaDesde(titulo, temas_, k) ==
    IF k > Len(temas_) THEN <<>>
    ELSE PrimeraPalabraNoticia(temas_[k], titulo, 1)
         \o ClasificarNoticiaDesde(titulo, temas_, k + 1)

\* example.py, clasificar_noticia
clasificar_noticia(noticia, temas_) ==
    ClasificarNoticiaDesde(Lower(noticia.title), temas_, 1)

EnSeq(x, sq) == \E k \in 1..Len(sq) : sq[k] = x

\* the orders in which a list without repetitions can hold the set conj
Ordenes(conj) ==
    {sq \in [1..Cardinality(conj) -> conj] : \A x \in conj : EnSeq(x, sq)}

\* lines 460-464 comparing the matched keyword, not the topic
encontrar_cuentas_interesadas_por_palabra(temas_documento, cuentas_) ==
    Ordenes({cuentas_[k].nombre : k \in
                {j \in 1..Len(cuentas_) :
                    \E q \in 1..Len(temas_documento) :
                        EnSeq(temas_documento[q].palabra_encontrada, cuentas_[j].temas)}})

\* lines 460-464 asking for every topic of the account, not for one
RECURSIVE CuentasInteresadasEnTodoDesde(_, _, _)
CuentasInteresadasEnTodoDesde(temas_documento, cuentas_, k) ==
    IF k > Len(cuentas_) THEN <<>>
    ELSE (IF /\ Len(temas_documento) > 0
             /\ \A q \in 1..Len(cuentas_[k].temas) :
                   \E h \in 1..Len(temas_documento) :
                      temas_documento[h].tema = cuentas_[k].temas[q]
          THEN <<cuentas_[k].nombre>> ELSE <<>>)
         \o CuentasInteresadasEnTodoDesde(temas_documento, cuentas_, k + 1)

\* lines 458-464: the accounts, in the order of self.cuentas.items(), with a
\* topic of the document among their temas
RECURSIVE CuentasInteresadasDesde(_, _, _)
CuentasInteresadasDesde(temas_documento, cuentas_, k) ==
    IF k > Len(cuentas_) THEN <<>>
    ELSE (IF \E q \in 1..Len(temas_documento) :
                EnSeq(temas_documento[q].tema, cuentas_[k].temas)
          THEN <<cuentas_[k].nombre>> ELSE <<>>)
         \o CuentasInteresadasDesde(temas_documento, cuentas_, k + 1)

\* _encontrar_cuentas_interesadas: list(set(cuentas_interesadas)) may come in
\* any order; this is the set of lists the call may return
encontrar_cuentas_interesadas(temas_documento, cuentas_) ==
    LET lista == CuentasInteresadasDesde(temas_documento, cuentas_, 1)
    IN  Ordenes({lista[k] : k \in 1..Len(lista)})


(***************************************************************************)
(* procesar_pdf: the segmentation loop, one step per line                  *)
(***************************************************************************)
MaxLineas == 3

\* the lines a page may hold
LINEAS_SEG ==
    {<<"L", "E", "Y", " ", "2", "7", ".", "0", "0", "0">>,
     <<"D", "e", "c", "r", "e", "t", "o", " ", "3", "5", "0", "/", "2", "0", "2", "5">>,
     <<"v", "e", "r", " ", "D", "E", "C", "R", "E", "T", "O", " ", "5">>,
     <<>>,
     <<"J", "u", "a", "n", " ", "P", "e", "r", "e", "z">>}

SeqsHasta(conj, n) == UNION {[1..k -> conj] : k \in 0..n}

\* the pages whose texts hold the lines ls, a page ending after each line
\* whose index is in cortes
RECURSIVE PaginarDesde(_, _, _, _)
PaginarDesde(ls, cortes, k, actual) ==
    IF k > Len(ls) THEN <<Join(actual, <<NL>>)>>
    ELSE IF (k - 1) \in cortes
         THEN <<Join(actual, <<NL>>)>> \o PaginarDesde(ls, cortes, k + 1, <<ls[k]>>)
         ELSE PaginarDesde(ls, cortes, k + 1, Append(actual, ls[k]))
Paginar(ls, cortes) ==
    IF Len(ls) = 0 THEN <<>> ELSE PaginarDesde(ls, cortes, 2, <<ls[1]>>)

\* texto.split('\n') of the page being read
LineasDePagina(k) == Split(paginas[k], NL)
linea == LineasDePagina(i)[n_linea]

extVars == <<tipo_in, texto_in, doc_out>>
segVars == <<paginas, i, n_linea, documento_actual, texto_documento, documentos>>
clasVars == <<temas, cuentas, filas, reportes>>
feedVars == <<feed_pc, retry_count, intentos, espera, resultado>>
newsVars == <<feedVars, all_news, n_noticia, noticias_por_tema,
              total_noticias_clasificadas>>

ExtIdle == tipo_in = "" /\ texto_in = <<>> /\ doc_out = None
ClasIdle == temas = <<>> /\ cuentas = <<>> /\ filas = <<>> /\ reportes = <<>>
NewsIdle ==
    /\ feed_pc = <<>> /\ retry_count = <<>> /\ intentos = <<>> /\ espera = <<>>
    /\ resultado = <<>> /\ all_news = <<>> /\ n_noticia = 0
    /\ noticias_por_tema = <<>> /\ total_noticias_clasificadas = 0

rssVars == <<feed_in, limit_in, entries_out>>
RssIdle ==
    /\ feed_in = <<>>
    /\ limit_in = 0
    /\ entries_out = None

locVars == <<hoy, fecha_actual, pasos, sondas, loc_out, archivos, seccion_out, navegador>>
LocIdle ==
    /\ hoy = <<>>
    /\ fecha_actual = <<>>
    /\ pasos = 0
    /\ sondas = <<>>
    /\ loc_out = None
    /\ archivos = {}
    /\ seccion_out = None
    /\ navegador = None

sumVars == <<en_sumario, n_pag, sumario, probadas>>
SumIdle ==
    /\ en_sumario = FALSE
    /\ n_pag = 0
    /\ sumario = <<>>
    /\ probadas = <<>>

sinkVars == <<fallas, bitacora>>
SinkIdle ==
    /\ fallas = {}
    /\ bitacora = <<>>
\* line 803: the directory of the account reports, among the writes that raise
DirReportes == <<"dir_reportes", 0>>
\* every write goes well, but for the directory of the account reports
SinkListo ==
    /\ fallas \in {{}, {DirReportes}}
    /\ bitacora = <<>>

cargaVars == <<origen_temas, origen_cuentas>>
CargaIdle ==
    /\ origen_temas = <<>>
    /\ origen_cuentas = <<>>

guiVars == <<process_button, status_label, log_text, hilos, after_queue>>
GuiIdle ==
    /\ process_button = {}
    /\ status_label = "Listo"
    /\ log_text = <<>>
    /\ hilos = <<>>
    /\ after_queue = <<>>

SegInit ==
    /\ pc = "seg"
    /\ \E ls \in SeqsHasta(LINEAS_SEG, MaxLineas) :
          \E cortes \in SUBSET (1..(Len(ls) - 1)) :
             paginas = Paginar(ls, cortes)
    /\ i = 1
    /\ n_linea = 1
    /\ documento_actual = None
    /\ texto_documento = <<>>
    /\ documentos = <<>>
    /\ ExtIdle /\ ClasIdle /\ NewsIdle /\ RssIdle /\ LocIdle /\ SumIdle /\ SinkIdle /\ CargaIdle /\ GuiIdle

\* the for loops of lines 505 and 514 move to the next line
Avanzar ==
    IF n_linea < Len(LineasDePagina(i))
    THEN i' = i /\ n_linea' = n_linea + 1
    ELSE i' = i + 1 /\ n_linea' = 1

\* lines 519-524: the open document is closed and appended
DocumentosConAnterior ==
    IF documento_actual.some /\ Len(texto_documento) > 0
    THEN Append(documentos,
                procesar_documento(documento_actual.v, Join(texto_documento, <<NL>>)))
    ELSE documentos

\* NuevoDocumento closing the open document only when it has a body
NuevoDocumento_solo_con_cuerpo ==
    /\ pc = "seg" /\ i <= Len(paginas)
    /\ detectar_inicio_documento(linea).some
    /\ documentos' = (IF Len(texto_documento) > 1 THEN DocumentosConAnterior
                      ELSE documentos)
    /\ documento_actual' = detectar_inicio_documento(linea)
    /\ texto_documento' = <<linea>>
    /\ Avanzar
    /\ UNCHANGED <<pc, paginas, extVars, clasVars, newsVars, rssVars, locVars, sumVars, sinkVars,
                   cargaVars, guiVars>>

\* lines 515-527: the line opens a document
NuevoDocumento ==
    /\ pc = "seg" /\ i <= Len(paginas)
    /\ detectar_inicio_documento(linea).some
    /\ documentos' = DocumentosConAnterior
    /\ documento_actual' = detectar_inicio_documento(linea)
    /\ texto_documento' = <<linea>>
    /\ Avanzar
    /\ UNCHANGED <<pc, paginas, extVars, clasVars, newsVars, rssVars, locVars, sumVars, sinkVars,
                   cargaVars, guiVars>>

\* AgregarLinea skipping blank lines
AgregarLinea_sin_blancos ==
    /\ pc = "seg" /\ i <= Len(paginas)
    /\ ~detectar_inicio_documento(linea).some
    /\ documento_actual.some
    /\ texto_documento' = (IF Len(Strip(linea)) = 0 THEN texto_documento
                           ELSE Append(texto_documento, linea))
    /\ Avanzar
    /\ UNCHANGED <<pc, paginas, documento_actual, documentos, extVars, clasVars, newsVars, rssVars,
                   locVars, sumVars, sinkVars, cargaVars, guiVars>>

\* lines 528-530: the line belongs to the open document
AgregarLinea ==
    /\ pc = "seg" /\ i <= Len(paginas)
    /\ ~detectar_inicio_documento(linea).some
    /\ documento_actual.some
    /\ texto_documento' = Append(texto_documento, linea)
    /\ Avanzar
    /\ UNCHANGED <<pc, paginas, documento_actual, documentos, extVars, clasVars, newsVars, rssVars,
                   locVars, sumVars, sinkVars, cargaVars, guiVars>>

\* lines 528-529: a line before the first document is dropped
DescartarLinea ==
    /\ pc = "seg" /\ i <= Len(paginas)
    /\ ~detectar_inicio_documento(linea).some
    /\ ~documento_actual.some
    /\ Avanzar
    /\ UNCHANGED <<pc, paginas, documento_actual, texto_documento, documentos, extVars, clasVars, newsVars,
                   rssVars, locVars, sumVars, sinkVars, cargaVars, guiVars>>

\* lines 532-538: after the last page the open document is closed
UltimoDocumento ==
    /\ pc = "seg" /\ i > Len(paginas)
    /\ documentos' = DocumentosConAnterior
    /\ pc' = "seg_fin"
    /\ UNCHANGED <<paginas, i, n_linea, documento_actual, texto_documento, extVars, clasVars, newsVars,
                   rssVars, locVars, sumVars, sinkVars, cargaVars, guiVars>>

SegNext == NuevoDocumento \/ AgregarLinea \/ DescartarLinea \/ UltimoDocumento

SpecSeg == SegInit /\ [][SegNext]_vars


(***************************************************************************)
(* Segmentation: claims C1 - C3                                            *)
(***************************************************************************)
RECURSIVE Aplanar(_)
Aplanar(ss) == IF Len(ss) = 0 THEN <<>> ELSE Head(ss) \o Aplanar(Tail(ss))

\* every line of every page, in page order
TodasLasLineas == Aplanar([k \in 1..Len(paginas) |-> LineasDePagina(k)])

\* the indices of the lines of ls on which a type is detected, ascending
RECURSIVE PosCabecerasDesde(_, _)
PosCabecerasDesde(ls, k) ==
    IF k > Len(ls) THEN <<>>
    ELSE (IF detectar_inicio_documento(ls[k]).some THEN <<k>> ELSE <<>>)
         \o PosCabecerasDesde(ls, k + 1)
PosCabeceras(ls) == PosCabecerasDesde(ls, 1)

Contenidos == [k \in 1..Len(documentos) |-> documentos[k].contenido]

\* C1: the segmentation loop emits one document per line on which
\* _detectar_inicio_documento returns a type (none when no line matches);
\* the k-th document has the type detected on the k-th such line, and a
\* header line directly followed by another header line is a whole document.
C1_UnDocumentoPorCabecera ==
    pc = "seg_fin" =>
        LET ls == TodasLasLineas
            pos == PosCabeceras(ls)
        IN  /\ Len(documentos) = Len(pos)
            /\ \A k \in 1..Len(pos) :
                  /\ k <= Len(documentos)
                  /\ documentos[k].tipo_documento
                        = detectar_inicio_documento(ls[pos[k]]).v
                  /\ (k < Len(pos) /\ pos[k + 1] = pos[k] + 1)
                        => documentos[k].contenido = ls[pos[k]]

\* two consecutive header lines and a third line: two documents, the first
\* of them the bare header line
C1_Witness ==
    /\ pc = "seg_fin"
    /\ Len(TodasLasLineas) = 3
    /\ PosCabeceras(TodasLasLineas) = <<1, 2>>
    /\ Len(documentos) = 2
    /\ documentos[1].contenido = <<"L", "E", "Y", " ", "2", "7", ".", "0", "0", "0">>

\* C2: no line is lost, duplicated or reordered: the documents' contenido,
\* joined by newlines in emission order, is the input from the first header
\* line to the last line of the last page; lines before the first header
\* line are in no document.
C2_SinPerdidaDeLineas ==
    pc = "seg_fin" =>
        LET ls == TodasLasLineas
            pos == PosCabeceras(ls)
        IN  IF Len(pos) = 0 THEN documentos = <<>>
            ELSE LET resto == SubSeq(ls, pos[1], Len(ls))
                 IN  /\ Join(Contenidos, <<NL>>) = Join(resto, <<NL>>)
                     /\ Aplanar([k \in 1..Len(documentos) |->
                                    Split(Contenidos[k], NL)]) = resto

\* a line dropped before the first header, then a document of two lines
\* (one of them blank) that spans two pages
C2_Witness ==
    /\ pc = "seg_fin"
    /\ Len(paginas) = 3
    /\ PosCabeceras(TodasLasLineas) = <<2>>
    /\ Len(documentos) = 1
    /\ Len(documentos[1].contenido) > Len(TodasLasLineas[2])
    /\ TodasLasLineas[3] = <<>>

\* C3: the number of every segmented document is the numeric group that its
\* type pattern captures on its header line, as detection matched it; so it
\* is never absent.
C3_NumeroDeLaCabecera ==
    pc = "seg_fin" =>
        LET ls == TodasLasLineas
            pos == PosCabeceras(ls)
        IN  \A k \in 1..Len(documentos) :
               LET cabecera == ls[pos[k]]
                   patron == PatronDeTipo(documentos[k].tipo_documento).v
               IN  documentos[k].numero_documento
                      = Some(Group(cabecera, ReMatch(patron, cabecera, TRUE), 1))


(***************************************************************************)
(* Detection is anchored at the start of the line: claim C21               *)
(***************************************************************************)
MaxLineasDet == 2

\* the lines a page may hold: headers in several spellings, and lines that
\* hold a type and a number without being headers
LINEAS_DET ==
    {<<"L", "E", "Y", " ", "2", "7", ".", "0", "0", "0">>,
     <<"l", "e", "y", " ", "N", "°", " ", "5">>,
     <<" ", "L", "E", "Y", " ", "5">>,
     <<"v", "e", "r", " ", "D", "E", "C", "R", "E", "T", "O", " ", "5">>,
     <<"L", "E", "Y", "5">>,
     <<"D", "E", "C", "I", "S", "I", "Ó", "N", " ", " ", "A", "D", "M", "I", "N", "I", "S", "T", "R", "A", "T", "I", "V", "A", " ", "N", "º", "1", "2">>,
     <<"L", "E", "Y", " ", "N", " ", "5">>}

DetInit ==
    /\ pc = "seg"
    /\ \E ls \in SeqsHasta(LINEAS_DET, MaxLineasDet) :
          \E cortes \in SUBSET (1..(Len(ls) - 1)) :
             paginas = Paginar(ls, cortes)
    /\ i = 1
    /\ n_linea = 1
    /\ documento_actual = None
    /\ texto_documento = <<>>
    /\ documentos = <<>>
    /\ ExtIdle /\ ClasIdle /\ NewsIdle /\ RssIdle /\ LocIdle /\ SumIdle /\ SinkIdle /\ CargaIdle /\ GuiIdle

SpecDet == DetInit /\ [][SegNext]_vars

\* the keys of tipos_documentos, each as the words it is made of
PALABRAS_TIPO ==
    {<<<<"L", "E", "Y">>>>,
     <<<<"D", "E", "C", "R", "E", "T", "O">>>>,
     <<<<"R", "E", "S", "O", "L", "U", "C", "I", "Ó", "N">>>>,
     <<<<"D", "I", "S", "P", "O", "S", "I", "C", "I", "Ó", "N">>>>,
     <<<<"D", "E", "C", "I", "S", "I", "Ó", "N">>, <<"A", "D", "M", "I", "N", "I", "S", "T", "R", "A", "T", "I", "V", "A">>>>}

\* the first position at or after p that holds no whitespace
RECURSIVE TrasEspacios(_, _)
TrasEspacios(l, p) ==
    IF p <= Len(l) /\ l[p] \in Espacio THEN TrasEspacios(l, p + 1) ELSE p

\* the word w stands at position p of l, whatever its case
PalabraEn(l, p, w) ==
    /\ p + Len(w) - 1 <= Len(l)
    /\ \A k \in 1..Len(w) : EnSet(l[p + k - 1], {w[k]}, TRUE)

\* the position after the words ws and the whitespace that follows each of
\* them, when they stand at p; 0 when they do not
RECURSIVE TrasPalabras(_, _, _)
TrasPalabras(l, p, ws) ==
    IF Len(ws) = 0 THEN p
    ELSE IF ~PalabraEn(l, p, Head(ws)) THEN 0
    ELSE LET q == p + Len(Head(ws))
         IN  IF TrasEspacios(l, q) = q THEN 0
             ELSE TrasPalabras(l, TrasEspacios(l, q), Tail(ws))

\* the position after an N° or Nº marker at p and its whitespace; p when
\* no marker stands there
TrasMarca(l, p) ==
    IF p + 1 <= Len(l) /\ EnSet(l[p], {"N"}, TRUE) /\ l[p + 1] \in {"°", "º"}
    THEN TrasEspacios(l, p + 2)
    ELSE p

\* at position p of l: a type keyword, whitespace, an optional marker and a
\* digit
TipoYNumeroEn(l, p) ==
    \E ws \in PALABRAS_TIPO :
       LET q == TrasPalabras(l, p, ws)
       IN  /\ q > 0
           /\ TrasMarca(l, q) <= Len(l)
           /\ l[TrasMarca(l, q)] \in Digito

EmpiezaConTipo(l) == TipoYNumeroEn(l, 1)

\* a type keyword and number occur in l, but only after other characters
TipoSoloTrasOtros(l) ==
    /\ ~EmpiezaConTipo(l)
    /\ \E p \in 2..Len(l) : TipoYNumeroEn(l, p)

\* C21: a line opens a new document only if the line itself begins, whatever
\* its case, with a type keyword followed by whitespace, an optional N° or Nº
\* marker and a digit; a line that holds a type keyword and number only
\* after other characters closes no document and opens none, and it is
\* appended unchanged to the buffer of the open document.
C21_AncladaAlInicio ==
    [][(pc = "seg" /\ i <= Len(paginas)) =>
          /\ (texto_documento' = <<linea>> \/ documentos' # documentos)
                => EmpiezaConTipo(linea)
          /\ TipoSoloTrasOtros(linea) =>
                /\ documentos' = documentos
                /\ documento_actual' = documento_actual
                /\ texto_documento' = (IF documento_actual.some
                                       THEN Append(texto_documento, linea)
                                       ELSE texto_documento)]_vars

\* "ver DECRETO 5" was read with the document of "ley N° 5" open: it is in
\* the buffer, the type is unchanged and no document was closed
C21_Witness ==
    /\ pc = "seg"
    /\ documento_actual = Some("LEY")
    /\ documentos = <<>>
    /\ Len(texto_documento) = 2
    /\ texto_documento[1] = <<"l", "e", "y", " ", "N", "°", " ", "5">>
    /\ texto_documento[2] = <<"v", "e", "r", " ", "D", "E", "C", "R", "E", "T", "O", " ", "5">>


(***************************************************************************)
(* _procesar_documento on its own: any type, any block                     *)
(***************************************************************************)
MaxBloque == 3

\* the lines a block may hold
LINEAS_EXT ==
    {<<"L", "E", "Y", " ", "2", "7", ".", "0", "0", "0">>,
     <<"E", "s", "t", "a", "b", "l", "e", "c", "i", "é", "n", "d", "o", "s", "e", " ", "e", "l", " ", "p", "r", "e", "s", "e", "n", "t", "e", " ", "r", "é", "g", "i", "m", "e", "n", " ", "-", " ", "d", "e", "t", "a", "l", "l", "e", ".">>,
     <<"B", "U", "E", "N", "O", "S", " ", "A", "I", "R", "E", "S">>,
     <<"J", "U", "A", "N", " ", "P", "E", "R", "E", "Z">>,
     <<"J", "u", "a", "n", " ", "P", "e", "r", "e", "z">>,
     <<"M", "I", "N", "I", "S", "T", "E", "R", "I", "O", " ", "D", "E", " ", "S", "A", "L", "U", "D", " ", "0", "1", "/", "0", "2", "/", "2", "0", "2", "5", " ", "#", "I", "5", "F", "#", " ", "A", "N", "E", "X", "O", " ", "w", "e", "b">>}

\* the types it may be called with: two of the dict and one that is not
TIPOS_EXT == {"LEY", "DECRETO", "EDICTO"}

BLOQUES == {Join(ls, <<NL>>) : ls \in SeqsHasta(LINEAS_EXT, MaxBloque) \ {<<>>}}

\* the block of the scenario of the spec's section 8
BloqueLey27000 ==
    Join(<<<<"L", "E", "Y", " ", "2", "7", ".", "0", "0", "0">>,
           <<"E", "s", "t", "a", "b", "l", "e", "c", "i", "é", "n", "d", "o", "s", "e", " ", "e", "l", " ", "p", "r", "e", "s", "e", "n", "t", "e", " ", "r", "é", "g", "i", "m", "e", "n", " ", "-", " ", "d", "e", "t", "a", "l", "l", "e", ".">>,
           <<"B", "U", "E", "N", "O", "S", " ", "A", "I", "R", "E", "S">>,
           <<"J", "U", "A", "N", " ", "P", "E", "R", "E", "Z">>>>, <<NL>>)

SegIdle ==
    /\ paginas = <<>> /\ i = 0 /\ n_linea = 0
    /\ documento_actual = None /\ texto_documento = <<>> /\ documentos = <<>>

ExtInit ==
    /\ pc = "ext"
    /\ tipo_in \in TIPOS_EXT
    /\ texto_in \in BLOQUES \cup {BloqueLey27000}
    /\ doc_out = None
    /\ SegIdle /\ ClasIdle /\ NewsIdle /\ RssIdle /\ LocIdle /\ SumIdle /\ SinkIdle /\ CargaIdle /\ GuiIdle

\* the call _procesar_documento(tipo, texto)
ProcesarDocumento ==
    /\ pc = "ext"
    /\ doc_out' = Some(procesar_documento(tipo_in, texto_in))
    /\ pc' = "ext_fin"
    /\ UNCHANGED <<tipo_in, texto_in, segVars, clasVars, newsVars, rssVars, locVars, sumVars,
                   sinkVars, cargaVars, guiVars>>

ExtNext == ProcesarDocumento

SpecExt == ExtInit /\ [][ExtNext]_vars

(***************************************************************************)
(* Field extraction: claims C4 and C5                                      *)
(***************************************************************************)
\* C4 as the spec states it: the block "LEY 27.000 / Estableciéndose el
\* presente régimen - detalle. / BUENOS AIRES / JUAN PEREZ" with type LEY
\* yields number "27.000", that title, and signatories ["JUAN PEREZ"].
C4_EscenarioOriginal ==
    (pc = "ext_fin" /\ tipo_in = "LEY" /\ texto_in = BloqueLey27000) =>
        /\ doc_out.v.numero_documento = Some(<<"2", "7", ".", "0", "0", "0">>)
        /\ doc_out.v.titulo = Some(<<"E", "s", "t", "a", "b", "l", "e", "c", "i", "é", "n", "d", "o", "s", "e", " ", "e", "l", " ", "p", "r", "e", "s", "e", "n", "t", "e", " ", "r", "é", "g", "i", "m", "e", "n", " ", "-", " ", "d", "e", "t", "a", "l", "l", "e", ".">>)
        /\ doc_out.v.firmantes = <<<<"J", "U", "A", "N", " ", "P", "E", "R", "E", "Z">>>>

\* C4 amended: the same block with type LEY yields number "27" (the digits
\* before the dot), the title "Estableciéndose el presente régimen - detalle."
\* and no signatories (the name pattern wants capitalised, not upper-case,
\* words).
C4_Escenario ==
    (pc = "ext_fin" /\ tipo_in = "LEY" /\ texto_in = BloqueLey27000) =>
        /\ doc_out.v.numero_documento = Some(<<"2", "7">>)
        /\ doc_out.v.titulo = Some(<<"E", "s", "t", "a", "b", "l", "e", "c", "i", "é", "n", "d", "o", "s", "e", " ", "e", "l", " ", "p", "r", "e", "s", "e", "n", "t", "e", " ", "r", "é", "g", "i", "m", "e", "n", " ", "-", " ", "d", "e", "t", "a", "l", "l", "e", ".">>)
        /\ doc_out.v.firmantes = <<>>

C4_Witness ==
    /\ pc = "ext_fin" /\ tipo_in = "LEY" /\ texto_in = BloqueLey27000
    /\ doc_out.some

HayDigito(t) == \E k \in 1..Len(t) : t[k] \in Digito

\* a line that holds nothing but letters and blanks, two words at least,
\* each an upper-case letter followed by lower-case ones
HayLineaDeNombre(t) ==
    \E k \in 1..Len(Split(t, NL)) :
        LET l == Split(t, NL)[k]
        IN  /\ \E q \in 1..Len(l) : l[q] \in Espacio
            /\ \A q \in 1..Len(l) : l[q] \in AZacento \cup azacento \cup Espacio
            /\ \E q \in 1..Len(l) : l[q] \in azacento

\* C5: _procesar_documento returns, for every type and block, a record with
\* the given non-empty type and the block unchanged; a field whose pattern
\* cannot match is None ([] for firmantes, False for tiene_anexo_web), and
\* the record is returned all the same.
C5_NuncaFalla ==
    pc = "ext_fin" =>
        /\ doc_out.some
        /\ doc_out.v.tipo_documento = tipo_in /\ tipo_in # ""
        /\ doc_out.v.contenido = texto_in
        /\ tipo_in \notin TIPOS => doc_out.v.numero_documento = None
        /\ ~HayDigito(texto_in) =>
              /\ doc_out.v.numero_documento = None
              /\ doc_out.v.identificador = None
              /\ doc_out.v.fecha = None
              /\ doc_out.v.codigo_publicacion = None
              /\ doc_out.v.codigo_hash = None
        /\ ~Contains(texto_in, <<"-">>) =>
              doc_out.v.titulo = None /\ doc_out.v.identificador = None
        /\ ~Contains(texto_in, <<"/">>) =>
              doc_out.v.fecha = None /\ doc_out.v.codigo_publicacion = None
        /\ ~Contains(texto_in, <<"#">>) => doc_out.v.codigo_hash = None
        /\ ~Contains(texto_in, <<"M", "I", "N", "I", "S", "T", "E", "R", "I", "O">>) /\ ~Contains(texto_in, <<"S", "E", "C", "R", "E", "T", "A", "R", "Í", "A">>)
              /\ ~Contains(texto_in, <<"P", "R", "E", "S", "I", "D", "E", "N", "C", "I", "A">>)
              => doc_out.v.organismo_emisor = None
        /\ ~HayLineaDeNombre(texto_in) => doc_out.v.firmantes = <<>>
        /\ ~Contains(texto_in, <<"A", "N", "E", "X", "O">>) => doc_out.v.tiene_anexo_web = FALSE
        /\ doc_out.v.tiene_anexo_web \in BOOLEAN

\* a block of upper-case lines only, under a type that is not in the dict:
\* every field but the type and the text is absent
C5_Witness ==
    /\ pc = "ext_fin" /\ tipo_in = "EDICTO"
    /\ texto_in = Join(<<<<"B", "U", "E", "N", "O", "S", " ", "A", "I", "R", "E", "S">>, <<"J", "U", "A", "N", " ", "P", "E", "R", "E", "Z">>>>, <<NL>>)
    /\ doc_out.v.numero_documento = None /\ doc_out.v.titulo = None
    /\ doc_out.v.fecha = None /\ doc_out.v.firmantes = <<>>
    /\ doc_out.v.contenido = texto_in


(***************************************************************************)
(* _guardar_resultados and _generar_resumen_por_cuenta: one row per        *)
(* document, then one selection of rows per account                        *)
(***************************************************************************)
MaxDocs == 2
MaxTemas == 3
MaxCuentas == 2

Salud == <<"S", "a", "l", "u", "d">>
Energia == <<"E", "n", "e", "r", "g", "í", "a">>
Vacio == <<"V", "a", "c", "í", "o">>
Fantasma == <<"F", "a", "n", "t", "a", "s", "m", "a">>

\* the topics Diccionario.xlsx may give: keywords stripped and lower-cased
TEMAS_CAT ==
    {[tema |-> Salud, palabras_clave |-> <<<<"s", "a", "l", "u", "d">>, <<"h", "o", "s", "p", "i", "t", "a", "l">>>>],
     [tema |-> Energia, palabras_clave |-> <<<<"n", "a", "f", "t", "a">>, <<"s", "a", "l", "u", "d">>>>],
     [tema |-> Vacio, palabras_clave |-> <<>>]}

\* the accounts Cuentas.xlsx may give; Fantasma is no topic of the dictionary
CUENTAS_CAT ==
    {[nombre |-> <<"Y", "P", "F">>, temas |-> <<Energia>>],
     [nombre |-> <<"Y", "P", "F", " ", "L", "u", "z">>, temas |-> <<Salud, Fantasma>>],
     [nombre |-> <<"A", "c", "m", "e">>, temas |-> <<Fantasma>>]}

\* the blocks the documents of the issue may hold
CONTENIDOS ==
    {<<"L", "E", "Y", " ", "1", "\n", "H", "o", "s", "p", "i", "t", "a", "l", " ", "d", "e", " ", "S", "a", "l", "u", "d">>,
     <<"L", "E", "Y", " ", "2", "\n", "N", "A", "F", "T", "A">>,
     <<"L", "E", "Y", " ", "3", "\n", "N", "a", "d", "a">>,
     <<"L", "E", "Y", " ", "4", "\n", "a", "f", "t", "a">>}

\* the titles a news item may have
TITULOS ==
    {<<"S", "a", "l", "u", "d", ":", " ", "n", "u", "e", "v", "o", " ", "h", "o", "s", "p", "i", "t", "a", "l">>,
     <<"S", "u", "b", "e", " ", "l", "a", " ", "N", "A", "F", "T", "A">>,
     <<"H", "o", "s", "p", "i", "t", "a", "l", " ", "s", "i", "n", " ", "N", "A", "F", "T", "A">>,
     <<"D", "e", "p", "o", "r", "t", "e", "s">>}

SinRepetir(sq) == \A a, b \in 1..Len(sq) : sq[a] = sq[b] => a = b

\* a dict keeps one entry per key, in insertion order
ALMACENES_TEMAS == {sq \in SeqsHasta(TEMAS_CAT, MaxTemas) : SinRepetir(sq)}
ALMACENES_CUENTAS == {sq \in SeqsHasta(CUENTAS_CAT, MaxCuentas) : SinRepetir(sq)}

ClasInit ==
    /\ pc = "clas"
    /\ temas \in ALMACENES_TEMAS
    /\ cuentas \in ALMACENES_CUENTAS
    /\ \E cs \in {sq \in SeqsHasta(CONTENIDOS, MaxDocs) : SinRepetir(sq)} :
          documentos = [k \in 1..Len(cs) |-> procesar_documento("LEY", cs[k])]
    /\ filas = <<>>
    /\ reportes = <<>>
    /\ paginas = <<>> /\ i = 0 /\ n_linea = 0
    /\ documento_actual = None /\ texto_documento = <<>>
    /\ ExtIdle /\ NewsIdle /\ RssIdle /\ LocIdle /\ SumIdle /\ SinkListo /\ CargaIdle /\ GuiIdle

\* line 720: doc['contenido'].replace('\r', ' ').replace('\n', '\\n')
contenido_limpio(doc) ==
    Replace(Replace(doc.contenido, "\r", <<" ">>), NL, <<"\\", "n">>)

TemasDe(ms) == [k \in 1..Len(ms) |-> ms[k].tema]
PalabrasDe(ms) == [k \in 1..Len(ms) |-> ms[k].palabra_encontrada]

\* lines 718-743: the row of the next document
ClasificarFila ==
    /\ pc = "clas" /\ Len(filas) < Len(documentos)
    /\ LET doc == documentos[Len(filas) + 1]
           temas_encontrados == clasificar_documento(contenido_limpio(doc), temas)
       IN  \E cuentas_interesadas \in
                 encontrar_cuentas_interesadas(temas_encontrados, cuentas) :
              filas' = Append(filas,
                 [tipo |-> doc.tipo_documento,
                  numero |-> doc.numero_documento,
                  temas_encontrados |-> temas_encontrados,
                  lista_cuentas |-> cuentas_interesadas,
                  temas_detectados |-> Join(TemasDe(temas_encontrados), <<";", " ">>),
                  palabras_clave |-> Join(PalabrasDe(temas_encontrados), <<";", " ">>),
                  cuentas_interesadas |-> Join(cuentas_interesadas, <<";", " ">>),
                  contenido_completo |-> contenido_limpio(doc)])
    /\ UNCHANGED <<pc, temas, cuentas, reportes, segVars, extVars, newsVars, rssVars, locVars,
                   sumVars, sinkVars, cargaVars, guiVars>>

\* lines 746-755: pd.DataFrame(documentos_data) and df[columnas_orden]; with
\* no row the frame has no column and the selection raises KeyError, which
\* line 794 logs and raises again
CrearDataFrame ==
    /\ pc = "clas" /\ Len(filas) = Len(documentos)
    /\ pc' = IF Len(filas) = 0 THEN "clas_error" ELSE "tsv"
    /\ UNCHANGED <<clasVars, segVars, extVars, newsVars, rssVars, locVars, sumVars, sinkVars,
                   cargaVars, guiVars>>

\* a write inside its own try/except Exception: attempted, and logged when
\* it raises; cuenta is the position of the account, 0 for the issue's files
Intentar(que, cuenta) ==
    Append(bitacora, [que |-> que, cuenta |-> cuenta, ok |-> <<que, cuenta>> \notin fallas])

\* GuardarTSV with the failure of df.to_csv reaching the except of line 794
GuardarTSV_propaga ==
    /\ pc = "tsv"
    /\ bitacora' = Intentar("tsv", 0)
    /\ pc' = IF <<"tsv", 0>> \in fallas THEN "clas_error" ELSE "excel"
    /\ UNCHANGED <<fallas, clasVars, segVars, extVars, newsVars, rssVars, locVars, sumVars, cargaVars,
                   guiVars>>

\* lines 758-768: df.to_csv, in its own try
GuardarTSV ==
    /\ pc = "tsv"
    /\ bitacora' = Intentar("tsv", 0)
    /\ pc' = "excel"
    /\ UNCHANGED <<fallas, clasVars, segVars, extVars, newsVars, rssVars, locVars, sumVars, cargaVars,
                   guiVars>>

\* lines 770-776: df.to_excel, in its own try
GuardarExcel ==
    /\ pc = "excel"
    /\ bitacora' = Intentar("excel", 0)
    /\ pc' = "json"
    /\ UNCHANGED <<fallas, clasVars, segVars, extVars, newsVars, rssVars, locVars, sumVars, cargaVars,
                   guiVars>>

\* lines 778-785: json.dump, in its own try; line 788 follows
GuardarJSON ==
    /\ pc = "json"
    /\ bitacora' = Intentar("json", 0)
    /\ pc' = "resumen"
    /\ UNCHANGED <<fallas, clasVars, segVars, extVars, newsVars, rssVars, locVars, sumVars, cargaVars,
                   guiVars>>

\* Series.str.contains(cuenta), one cell: pandas compiles the name as a
\* pattern and searches the cell for it
StrContains(celda, cuenta) == ReSearch(re_compile(cuenta).n, celda, FALSE).ok

\* line 809: the rows the pattern of the name is found in
RECURSIVE DocsCuentaDesde(_, _, _)
DocsCuentaDesde(filas_, cuenta, d) ==
    IF d > Len(filas_) THEN <<>>
    ELSE (IF StrContains(filas_[d].cuentas_interesadas, cuenta) THEN <<d>> ELSE <<>>)
         \o DocsCuentaDesde(filas_, cuenta, d + 1)
docs_cuenta(filas_, cuenta) == DocsCuentaDesde(filas_, cuenta, 1)

\* the increasing lists of rows
Subfilas(n) ==
    {sq \in UNION {[1..m -> 1..n] : m \in 0..n} :
        \A a, b \in 1..Len(sq) : a < b => sq[a] < sq[b]}

\* line 809 for one account: the rows selected, None when it raises.  A
\* name that is no pattern raises re.error; of a name whose pattern is not
\* read by re_compile nothing is known
FiltrosPosibles(filas_, cuenta) ==
    LET Segun(e) ==
            CASE e = "" -> {Some(docs_cuenta(filas_, cuenta))}
              [] e = "error" -> {None}
              [] OTHER -> {None} \cup {Some(sq) : sq \in Subfilas(Len(filas_))}
    IN  Segun(re_compile(cuenta).e)

\* lines 807-891, for the account at position c: what is attempted.  When
\* line 809 raises, line 889 logs it and the loop goes on; with rows, the
\* Excel report (lines 816-822) and the Word report (lines 825-887) are each
\* written in a try of their own
IntentosDeCuenta(c, filtrado, docs) ==
    IF ~filtrado
    THEN <<[que |-> "filtro", cuenta |-> c, ok |-> FALSE]>>
    ELSE <<[que |-> "filtro", cuenta |-> c, ok |-> TRUE]>>
         \o (IF Len(docs) > 0
             THEN <<[que |-> "excel_cuenta", cuenta |-> c,
                     ok |-> <<"excel_cuenta", c>> \notin fallas],
                    [que |-> "word_cuenta", cuenta |-> c,
                     ok |-> <<"word_cuenta", c>> \notin fallas]>>
             ELSE <<>>)

\* lines 800-803 and 893-895: os.makedirs(dir_reportes) raises, the outer
\* except clause logs it and the function returns with no account looked at
ResumenSinDirectorio ==
    /\ pc = "resumen" /\ DirReportes \in fallas
    /\ pc' = "clas_fin"
    /\ UNCHANGED <<clasVars, segVars, extVars, newsVars, rssVars, locVars, sumVars, sinkVars,
                   cargaVars, guiVars>>

\* lines 806-891: the report of the next account, written when it has rows
ResumenCuenta ==
    /\ pc = "resumen" /\ DirReportes \notin fallas /\ Len(reportes) < Len(cuentas)
    /\ \E f \in FiltrosPosibles(filas, cuentas[Len(reportes) + 1].nombre) :
       LET c == Len(reportes) + 1
           cuenta == cuentas[c].nombre
           filtrado == <<"filtro", c>> \notin fallas /\ f.some
           docs == IF filtrado THEN f.v ELSE <<>>
       IN  /\ reportes' = Append(reportes,
                 [cuenta |-> cuenta,
                  docs_cuenta |-> docs,
                  escrito |-> /\ Len(docs) > 0
                              /\ \/ <<"excel_cuenta", c>> \notin fallas
                                 \/ <<"word_cuenta", c>> \notin fallas])
           /\ bitacora' = bitacora \o IntentosDeCuenta(c, filtrado, docs)
    /\ UNCHANGED <<pc, temas, cuentas, filas, fallas, segVars, extVars, newsVars, rssVars,
                   locVars, sumVars, cargaVars, guiVars>>

\* line 806: the loop over the accounts ends
FinResumen ==
    /\ pc = "resumen" /\ DirReportes \notin fallas /\ Len(reportes) = Len(cuentas)
    /\ pc' = "clas_fin"
    /\ UNCHANGED <<clasVars, segVars, extVars, newsVars, rssVars, locVars, sumVars, sinkVars,
                   cargaVars, guiVars>>

ClasNext ==
    \/ ClasificarFila \/ CrearDataFrame
    \/ GuardarTSV \/ GuardarExcel \/ GuardarJSON
    \/ ResumenSinDirectorio \/ ResumenCuenta \/ FinResumen

SpecClas == ClasInit /\ [][ClasNext]_vars

\* the same pipeline with writes that raise
MaxFallasCuenta == 2

\* the writes of an issue with n accounts that may raise: any of the three
\* files of the issue, the directory of the account reports, and a few of
\* the steps of the account reports
FALLAS_DE(n) ==
    {f \cup g :
        f \in SUBSET ({"tsv", "excel", "json", "dir_reportes"} \X {0}),
        g \in {h \in SUBSET ({"filtro", "excel_cuenta", "word_cuenta"} \X (1..n)) :
                  Cardinality(h) <= MaxFallasCuenta}}

\* stores with an account whose name holds characters special to re: a
\* name that matches other texts than itself, one that does not match
\* itself, one that is no pattern, and a name that matches the name of
\* the other account of the store
ALMACENES_PATRON ==
    {<<[nombre |-> <<"Y", ".", "F">>, temas |-> <<Energia>>]>>,
     <<[nombre |-> <<"B", "a", "n", "c", "o", " ", "(", "B", "N", "A", ")">>, temas |-> <<Salud>>]>>,
     <<[nombre |-> <<"A", "c", "m", "e", " ", "(">>, temas |-> <<Salud>>]>>,
     <<[nombre |-> <<"Y", "P", "F">>, temas |-> <<Energia>>],
       [nombre |-> <<"Y", ".", "F">>, temas |-> <<Salud>>]>>}

DOCS_SINK ==
    <<<<"L", "E", "Y", " ", "1", "\n", "H", "o", "s", "p", "i", "t", "a", "l", " ", "d", "e", " ", "S", "a", "l", "u", "d">>,
      <<"L", "E", "Y", " ", "2", "\n", "N", "A", "F", "T", "A">>>>

SinkInit ==
    /\ pc = "clas"
    /\ temas \in {sq \in ALMACENES_TEMAS :
                    Len(sq) = 2 /\ \A k \in 1..2 : Len(sq[k].palabras_clave) > 0}
    /\ cuentas \in ALMACENES_CUENTAS \cup ALMACENES_PATRON
    /\ \E n \in 0..Len(DOCS_SINK) :
          documentos = [k \in 1..n |-> procesar_documento("LEY", DOCS_SINK[k])]
    /\ filas = <<>>
    /\ reportes = <<>>
    /\ fallas \in FALLAS_DE(Len(cuentas))
    /\ bitacora = <<>>
    /\ paginas = <<>> /\ i = 0 /\ n_linea = 0
    /\ documento_actual = None /\ texto_documento = <<>>
    /\ ExtIdle /\ NewsIdle /\ RssIdle /\ LocIdle /\ SumIdle /\ CargaIdle /\ GuiIdle

SpecSink == SinkInit /\ [][ClasNext]_vars

(***************************************************************************)
(* Classification and account matching: claims C6 - C8                     *)
(***************************************************************************)
\* ms holds, in store order, one match per topic with a keyword contained in
\* texto_lower and none for the others; the keyword is the first contained
EsClasificacion(ms, texto_lower, temas_) ==
    LET Contenida(k, q) == Contains(texto_lower, temas_[k].palabras_clave[q])
        coinciden == {k \in 1..Len(temas_) :
                        \E q \in 1..Len(temas_[k].palabras_clave) : Contenida(k, q)}
        Pos(n) == CHOOSE k \in coinciden :
                     Cardinality({h \in coinciden : h <= k}) = n
    IN  /\ Len(ms) = Cardinality(coinciden)
        /\ \A n \in 1..Len(ms) :
              /\ ms[n].tema = temas_[Pos(n)].tema
              /\ \E q \in 1..Len(temas_[Pos(n)].palabras_clave) :
                    /\ Contenida(Pos(n), q)
                    /\ \A h \in 1..(q - 1) : ~Contenida(Pos(n), h)
                    /\ ms[n].palabra_encontrada = temas_[Pos(n)].palabras_clave[q]
        /\ SinRepetir(TemasDe(ms))
        /\ \A n \in 1..Len(ms) : \A k \in 1..Len(temas_) :
              ms[n].tema = temas_[k].tema => Len(temas_[k].palabras_clave) > 0

\* C6: the classifier returns, in store order, exactly one match for each
\* topic with a keyword contained in the lower-cased text, with the first
\* such keyword of the topic's list, and nothing else; so a topic with no
\* keyword never appears and no topic appears twice.  Stated of the rows
\* _clasificar_documento produced and of clasificar_noticia on every title.
C6_Clasificador ==
    /\ \A d \in 1..Len(filas) :
          EsClasificacion(filas[d].temas_encontrados,
                          Lower(filas[d].contenido_completo), temas)
    /\ \A titulo \in TITULOS :
          EsClasificacion(clasificar_noticia([title |-> titulo], temas),
                          Lower(titulo), temas)

\* a text with both keywords of Salud, and Energia's second keyword, under a
\* store that also holds a topic with no keyword; then a text matching none
C6_Witness ==
    /\ Len(filas) >= 1
    /\ Len(temas) = 3
    /\ temas[1].tema = Energia /\ temas[2].tema = Vacio /\ temas[3].tema = Salud
    /\ filas[1].temas_encontrados
          = <<[tema |-> Energia, palabra_encontrada |-> <<"s", "a", "l", "u", "d">>],
              [tema |-> Salud, palabra_encontrada |-> <<"s", "a", "l", "u", "d">>]>>
    /\ Len(filas) >= 2 /\ filas[2].temas_encontrados = <<>>

\* C7: _encontrar_cuentas_interesadas returns an account iff one of its temas
\* equals the tema of one of the matches; no account twice; an account that
\* lists only topics unknown to the store is never returned.
C7_CuentasInteresadas ==
    \A d \in 1..Len(filas) :
        LET ms == filas[d].temas_encontrados
            res == filas[d].lista_cuentas
        IN  /\ \A c \in 1..Len(cuentas) :
                  EnSeq(cuentas[c].nombre, res)
                     <=> \E t \in 1..Len(cuentas[c].temas) :
                            \E q \in 1..Len(ms) : ms[q].tema = cuentas[c].temas[t]
            /\ \A x \in 1..Len(res) : \E c \in 1..Len(cuentas) : cuentas[c].nombre = res[x]
            /\ SinRepetir(res)
            /\ \A c \in 1..Len(cuentas) :
                  (\A t \in 1..Len(cuentas[c].temas) :
                      \A k \in 1..Len(temas) : temas[k].tema # cuentas[c].temas[t])
                  => ~EnSeq(cuentas[c].nombre, res)

\* a document matching Salud, with YPF Luz (Salud, Fantasma) and Acme
\* (Fantasma only) in the store: YPF Luz alone is returned
C7_Witness ==
    /\ Len(filas) >= 1
    /\ Len(filas[1].temas_encontrados) >= 1
    /\ Len(cuentas) = 2
    /\ \E c \in 1..2 : cuentas[c].nombre = <<"A", "c", "m", "e">>
    /\ filas[1].lista_cuentas = <<<<"Y", "P", "F", " ", "L", "u", "z">>>>

\* C8: the report of an account lists exactly the documents whose interested
\* accounts, as _encontrar_cuentas_interesadas computed them, include it.
C8_ReporteSoloDeLaCuenta ==
    pc = "clas_fin" =>
        \A c \in 1..Len(reportes) : \A d \in 1..Len(filas) :
            EnSeq(d, reportes[c].docs_cuenta)
               <=> EnSeq(cuentas[c].nombre, filas[d].lista_cuentas)

(***************************************************************************)
(* datetime: dates as (year, month, day)                                   *)
(***************************************************************************)
Fecha(y, m, d) == [year |-> y, month |-> m, day |-> d]

Bisiesto(y) == (y % 4 = 0 /\ y % 100 # 0) \/ y % 400 = 0

DiasDelMes(y, m) ==
    IF m = 2 THEN (IF Bisiesto(y) THEN 29 ELSE 28)
    ELSE IF m \in {4, 6, 9, 11} THEN 30 ELSE 31

\* fecha - timedelta(days=1)
DiaAnterior(f) ==
    IF f.day > 1 THEN Fecha(f.year, f.month, f.day - 1)
    ELSE IF f.month > 1 THEN Fecha(f.year, f.month - 1, DiasDelMes(f.year, f.month - 1))
    ELSE Fecha(f.year - 1, 12, 31)

RECURSIVE DiasAntesDelMes(_, _)
DiasAntesDelMes(y, m) ==
    IF m = 1 THEN 0 ELSE DiasAntesDelMes(y, m - 1) + DiasDelMes(y, m - 1)

\* date.toordinal(): 1 for the first of January of the year 1
Ordinal(f) ==
    LET a == f.year - 1
    IN  365 * a + (a \div 4) - (a \div 100) + (a \div 400)
        + DiasAntesDelMes(f.year, f.month) + f.day

\* date.isoweekday(): 1 for Monday ... 7 for Sunday
isoweekday(f) == ((Ordinal(f) + 6) % 7) + 1

\* date.weekday(): 0 for Monday ... 6 for Sunday
weekday(f) == (Ordinal(f) + 6) % 7

(***************************************************************************)
(* dateutil.parser (2.9.0): parse(timestr) with the default parserinfo,    *)
(* as rss_reader.py calls it.  A number is kept up to SAT: every number    *)
(* the parser compares it with is smaller, and a date or a time with a     *)
(* field of SAT or more is out of range.                                   *)
(***************************************************************************)
\* datetime.now() and the day before it, as (year, month, day)
HOY == [year |-> 2025, month |-> 3, day |-> 1]
AYER == [year |-> 2025, month |-> 2, day |-> 28]

\* Every function of the parser below is applied through dateutil(f, a),
\* with f its name and a its arguments: X(...) applies the definition
\* X_def(...).  A function that calls another, or itself, is then unfolded
\* once in the statistics TLC keeps for a specification, however many
\* calls lead to it.
RECURSIVE dateutil(_, _)
isword(nextchar) == dateutil("isword", <<nextchar>>)
LeerToken(s, p, state, token, seenletters) == dateutil("LeerToken", <<s, p, state, token, seenletters>>)
get_token(s, p) == dateutil("get_token", <<s, p>>)
TokensDesde(s, p) == dateutil("TokensDesde", <<s, p>>)
timelex_split(s) == dateutil("timelex_split", <<s>>)
Entrada_de(tabla, name) == dateutil("Entrada_de", <<tabla, name>>)
info_jump(name) == dateutil("info_jump", <<name>>)
info_weekday(name) == dateutil("info_weekday", <<name>>)
info_month(name) == dateutil("info_month", <<name>>)
info_hms(name) == dateutil("info_hms", <<name>>)
info_ampm(name) == dateutil("info_ampm", <<name>>)
info_pertain(name) == dateutil("info_pertain", <<name>>)
info_utczone(name) == dateutil("info_utczone", <<name>>)
info_tzoffset(name) == dateutil("info_tzoffset", <<name>>)
EsNumero(val) == dateutil("EsNumero", <<val>>)
ConFloat(value_repr) == dateutil("ConFloat", <<value_repr>>)
Decimal(val) == dateutil("Decimal", <<val>>)
YmdPoner(st, n, label) == dateutil("YmdPoner", <<st, n, label>>)
ymd_append_str(st, val, label) == dateutil("ymd_append_str", <<st, val, label>>)
ymd_append(st, val, label) == dateutil("ymd_append", <<st, val, label>>)
could_be_day(st, value) == dateutil("could_be_day", <<st, value>>)
resolve_from_stridxs(st) == dateutil("resolve_from_stridxs", <<st>>)
resolve_ymd(st) == dateutil("resolve_ymd", <<st>>)
parsems(value) == dateutil("parsems", <<value>>)
PonerSegundos(st, value) == dateutil("PonerSegundos", <<st, value>>)
PonerMinSec(st, value) == dateutil("PonerMinSec", <<st, value>>)
find_hms_idx(idx, tokens, allow_jump) == dateutil("find_hms_idx", <<idx, tokens, allow_jump>>)
assign_hms(st, value_repr, hms) == dateutil("assign_hms", <<st, value_repr, hms>>)
parse_numeric_token(tokens, st) == dateutil("parse_numeric_token", <<tokens, st>>)
RamaMes(l, st) == dateutil("RamaMes", <<l, st>>)
RamaAmPm(l, st) == dateutil("RamaAmPm", <<l, st>>)
RamaTzname(l, st) == dateutil("RamaTzname", <<l, st>>)
RamaSigno(l, st) == dateutil("RamaSigno", <<l, st>>)
ParsePaso(l, st) == dateutil("ParsePaso", <<l, st>>)
ParseDesde(l, st) == dateutil("ParseDesde", <<l, st>>)
parser_parse(timestr) == dateutil("parser_parse", <<timestr>>)
fecha_leida(timestr) == dateutil("fecha_leida", <<timestr>>)

\* the name of the character of a code point above U+00FF
HEX == <<"0", "1", "2", "3", "4", "5", "6", "7", "8", "9", "A", "B", "C", "D", "E", "F">>
Simbolo(cp) ==
    LET H(n) == HEX[(n % 16) + 1]
        cuatro == H(cp \div 4096) \o H(cp \div 256) \o H(cp \div 16) \o H(cp)
    IN  IF cp < 65536 THEN "U+" \o cuatro
        ELSE IF cp < 1048576 THEN "U+" \o H(cp \div 65536) \o cuatro
        ELSE "U+10" \o cuatro

\* str.isalpha: the letters up to U+00FF, and the ranges of code points of
\* the letters above
ALPHA_LATIN1 ==
    {"A", "B", "C", "D", "E", "F", "G", "H", "I", "J", "K", "L", "M", "N", "O", "P", "Q", "R",
     "S", "T", "U", "V", "W", "X", "Y", "Z", "a", "b", "c", "d", "e", "f", "g", "h", "i", "j",
     "k", "l", "m", "n", "o", "p", "q", "r", "s", "t", "u", "v", "w", "x", "y", "z", "ª", "µ",
     "º", "À", "Á", "Â", "Ã", "Ä", "Å", "Æ", "Ç", "È", "É", "Ê", "Ë", "Ì", "Í", "Î", "Ï", "Ð",
     "Ñ", "Ò", "Ó", "Ô", "Õ", "Ö", "Ø", "Ù", "Ú", "Û", "Ü", "Ý", "Þ", "ß", "à", "á", "â", "ã",
     "ä", "å", "æ", "ç", "è", "é", "ê", "ë", "ì", "í", "î", "ï", "ð", "ñ", "ò", "ó", "ô", "õ",
     "ö", "ø", "ù", "ú", "û", "ü", "ý", "þ", "ÿ"}
ALPHA_RANGOS ==
    <<<<256, 705>>, <<710, 721>>, <<736, 740>>, <<748, 748>>, <<750, 750>>, <<880, 884>>,
     <<886, 887>>, <<890, 893>>, <<895, 895>>, <<902, 902>>, <<904, 906>>, <<908, 908>>,
     <<910, 929>>, <<931, 1013>>, <<1015, 1153>>, <<1162, 1327>>, <<1329, 1366>>,
     <<1369, 1369>>, <<1376, 1416>>, <<1488, 1514>>, <<1519, 1522>>, <<1568, 1610>>,
     <<1646, 1647>>, <<1649, 1747>>, <<1749, 1749>>, <<1765, 1766>>, <<1774, 1775>>,
     <<1786, 1788>>, <<1791, 1791>>, <<1808, 1808>>, <<1810, 1839>>, <<1869, 1957>>,
     <<1969, 1969>>, <<1994, 2026>>, <<2036, 2037>>, <<2042, 2042>>, <<2048, 2069>>,
     <<2074, 2074>>, <<2084, 2084>>, <<2088, 2088>>, <<2112, 2136>>, <<2144, 2154>>,
     <<2160, 2183>>, <<2185, 2190>>, <<2208, 2249>>, <<2308, 2361>>, <<2365, 2365>>,
     <<2384, 2384>>, <<2392, 2401>>, <<2417, 2432>>, <<2437, 2444>>, <<2447, 2448>>,
     <<2451, 2472>>, <<2474, 2480>>, <<2482, 2482>>, <<2486, 2489>>, <<2493, 2493>>,
     <<2510, 2510>>, <<2524, 2525>>, <<2527, 2529>>, <<2544, 2545>>, <<2556, 2556>>,
     <<2565, 2570>>, <<2575, 2576>>, <<2579, 2600>>, <<2602, 2608>>, <<2610, 2611>>,
     <<2613, 2614>>, <<2616, 2617>>, <<2649, 2652>>, <<2654, 2654>>, <<2674, 2676>>,
     <<2693, 2701>>, <<2703, 2705>>, <<2707, 2728>>, <<2730, 2736>>, <<2738, 2739>>,
     <<2741, 2745>>, <<2749, 2749>>, <<2768, 2768>>, <<2784, 2785>>, <<2809, 2809>>,
     <<2821, 2828>>, <<2831, 2832>>, <<2835, 2856>>, <<2858, 2864>>, <<2866, 2867>>,
     <<2869, 2873>>, <<2877, 2877>>, <<2908, 2909>>, <<2911, 2913>>, <<2929, 2929>>,
     <<2947, 2947>>, <<2949, 2954>>, <<2958, 2960>>, <<2962, 2965>>, <<2969, 2970>>,
     <<2972, 2972>>, <<2974, 2975>>, <<2979, 2980>>, <<2984, 2986>>, <<2990, 3001>>,
     <<3024, 3024>>, <<3077, 3084>>, <<3086, 3088>>, <<3090, 3112>>, <<3114, 3129>>,
     <<3133, 3133>>, <<3160, 3162>>, <<3165, 3165>>, <<3168, 3169>>, <<3200, 3200>>,
     <<3205, 3212>>, <<3214, 3216>>, <<3218, 3240>>, <<3242, 3251>>, <<3253, 3257>>,
     <<3261, 3261>>, <<3293, 3294>>, <<3296, 3297>>, <<3313, 3314>>, <<3332, 3340>>,
     <<3342, 3344>>, <<3346, 3386>>, <<3389, 3389>>, <<3406, 3406>>, <<3412, 3414>>,
     <<3423, 3425>>, <<3450, 3455>>, <<3461, 3478>>, <<3482, 3505>>, <<3507, 3515>>,
     <<3517, 3517>>, <<3520, 3526>>, <<3585, 3632>>, <<3634, 3635>>, <<3648, 3654>>,
     <<3713, 3714>>, <<3716, 3716>>, <<3718, 3722>>, <<3724, 3747>>, <<3749, 3749>>,
     <<3751, 3760>>, <<3762, 3763>>, <<3773, 3773>>, <<3776, 3780>>, <<3782, 3782>>,
     <<3804, 3807>>, <<3840, 3840>>, <<3904, 3911>>, <<3913, 3948>>, <<3976, 3980>>,
     <<4096, 4138>>, <<4159, 4159>>, <<4176, 4181>>, <<4186, 4189>>, <<4193, 4193>>,
     <<4197, 4198>>, <<4206, 4208>>, <<4213, 4225>>, <<4238, 4238>>, <<4256, 4293>>,
     <<4295, 4295>>, <<4301, 4301>>, <<4304, 4346>>, <<4348, 4680>>, <<4682, 4685>>,
     <<4688, 4694>>, <<4696, 4696>>, <<4698, 4701>>, <<4704, 4744>>, <<4746, 4749>>,
     <<4752, 4784>>, <<4786, 4789>>, <<4792, 4798>>, <<4800, 4800>>, <<4802, 4805>>,
     <<4808, 4822>>, <<4824, 4880>>, <<4882, 4885>>, <<4888, 4954>>, <<4992, 5007>>,
     <<5024, 5109>>, <<5112, 5117>>, <<5121, 5740>>, <<5743, 5759>>, <<5761, 5786>>,
     <<5792, 5866>>, <<5873, 5880>>, <<5888, 5905>>, <<5919, 5937>>, <<5952, 5969>>,
     <<5984, 5996>>, <<5998, 6000>>, <<6016, 6067>>, <<6103, 6103>>, <<6108, 6108>>,
     <<6176, 6264>>, <<6272, 6276>>, <<6279, 6312>>, <<6314, 6314>>, <<6320, 6389>>,
     <<6400, 6430>>, <<6480, 6509>>, <<6512, 6516>>, <<6528, 6571>>, <<6576, 6601>>,
     <<6656, 6678>>, <<6688, 6740>>, <<6823, 6823>>, <<6917, 6963>>, <<6981, 6988>>,
     <<7043, 7072>>, <<7086, 7087>>, <<7098, 7141>>, <<7168, 7203>>, <<7245, 7247>>,
     <<7258, 7293>>, <<7296, 7304>>, <<7312, 7354>>, <<7357, 7359>>, <<7401, 7404>>,
     <<7406, 7411>>, <<7413, 7414>>, <<7418, 7418>>, <<7424, 7615>>, <<7680, 7957>>,
     <<7960, 7965>>, <<7968, 8005>>, <<8008, 8013>>, <<8016, 8023>>, <<8025, 8025>>,
     <<8027, 8027>>, <<8029, 8029>>, <<8031, 8061>>, <<8064, 8116>>, <<8118, 8124>>,
     <<8126, 8126>>, <<8130, 8132>>, <<8134, 8140>>, <<8144, 8147>>, <<8150, 8155>>,
     <<8160, 8172>>, <<8178, 8180>>, <<8182, 8188>>, <<8305, 8305>>, <<8319, 8319>>,
     <<8336, 8348>>, <<8450, 8450>>, <<8455, 8455>>, <<8458, 8467>>, <<8469, 8469>>,
     <<8473, 8477>>, <<8484, 8484>>, <<8486, 8486>>, <<8488, 8488>>, <<8490, 8493>>,
     <<8495, 8505>>, <<8508, 8511>>, <<8517, 8521>>, <<8526, 8526>>, <<8579, 8580>>,
     <<11264, 11492>>, <<11499, 11502>>, <<11506, 11507>>, <<11520, 11557>>, <<11559, 11559>>,
     <<11565, 11565>>, <<11568, 11623>>, <<11631, 11631>>, <<11648, 11670>>, <<11680, 11686>>,
     <<11688, 11694>>, <<11696, 11702>>, <<11704, 11710>>, <<11712, 11718>>, <<11720, 11726>>,
     <<11728, 11734>>, <<11736, 11742>>, <<11823, 11823>>, <<12293, 12294>>, <<12337, 12341>>,
     <<12347, 12348>>, <<12353, 12438>>, <<12445, 12447>>, <<12449, 12538>>, <<12540, 12543>>,
     <<12549, 12591>>, <<12593, 12686>>, <<12704, 12735>>, <<12784, 12799>>, <<13312, 19903>>,
     <<19968, 42124>>, <<42192, 42237>>, <<42240, 42508>>, <<42512, 42527>>, <<42538, 42539>>,
     <<42560, 42606>>, <<42623, 42653>>, <<42656, 42725>>, <<42775, 42783>>, <<42786, 42888>>,
     <<42891, 42954>>, <<42960, 42961>>, <<42963, 42963>>, <<42965, 42969>>, <<42994, 43009>>,
     <<43011, 43013>>, <<43015, 43018>>, <<43020, 43042>>, <<43072, 43123>>, <<43138, 43187>>,
     <<43250, 43255>>, <<43259, 43259>>, <<43261, 43262>>, <<43274, 43301>>, <<43312, 43334>>,
     <<43360, 43388>>, <<43396, 43442>>, <<43471, 43471>>, <<43488, 43492>>, <<43494, 43503>>,
     <<43514, 43518>>, <<43520, 43560>>, <<43584, 43586>>, <<43588, 43595>>, <<43616, 43638>>,
     <<43642, 43642>>, <<43646, 43695>>, <<43697, 43697>>, <<43701, 43702>>, <<43705, 43709>>,
     <<43712, 43712>>, <<43714, 43714>>, <<43739, 43741>>, <<43744, 43754>>, <<43762, 43764>>,
     <<43777, 43782>>, <<43785, 43790>>, <<43793, 43798>>, <<43808, 43814>>, <<43816, 43822>>,
     <<43824, 43866>>, <<43868, 43881>>, <<43888, 44002>>, <<44032, 55203>>, <<55216, 55238>>,
     <<55243, 55291>>, <<63744, 64109>>, <<64112, 64217>>, <<64256, 64262>>, <<64275, 64279>>,
     <<64285, 64285>>, <<64287, 64296>>, <<64298, 64310>>, <<64312, 64316>>, <<64318, 64318>>,
     <<64320, 64321>>, <<64323, 64324>>, <<64326, 64433>>, <<64467, 64829>>, <<64848, 64911>>,
     <<64914, 64967>>, <<65008, 65019>>, <<65136, 65140>>, <<65142, 65276>>, <<65313, 65338>>,
     <<65345, 65370>>, <<65382, 65470>>, <<65474, 65479>>, <<65482, 65487>>, <<65490, 65495>>,
     <<65498, 65500>>, <<65536, 65547>>, <<65549, 65574>>, <<65576, 65594>>, <<65596, 65597>>,
     <<65599, 65613>>, <<65616, 65629>>, <<65664, 65786>>, <<66176, 66204>>, <<66208, 66256>>,
     <<66304, 66335>>, <<66349, 66368>>, <<66370, 66377>>, <<66384, 66421>>, <<66432, 66461>>,
     <<66464, 66499>>, <<66504, 66511>>, <<66560, 66717>>, <<66736, 66771>>, <<66776, 66811>>,
     <<66816, 66855>>, <<66864, 66915>>, <<66928, 66938>>, <<66940, 66954>>, <<66956, 66962>>,
     <<66964, 66965>>, <<66967, 66977>>, <<66979, 66993>>, <<66995, 67001>>, <<67003, 67004>>,
     <<67072, 67382>>, <<67392, 67413>>, <<67424, 67431>>, <<67456, 67461>>, <<67463, 67504>>,
     <<67506, 67514>>, <<67584, 67589>>, <<67592, 67592>>, <<67594, 67637>>, <<67639, 67640>>,
     <<67644, 67644>>, <<67647, 67669>>, <<67680, 67702>>, <<67712, 67742>>, <<67808, 67826>>,
     <<67828, 67829>>, <<67840, 67861>>, <<67872, 67897>>, <<67968, 68023>>, <<68030, 68031>>,
     <<68096, 68096>>, <<68112, 68115>>, <<68117, 68119>>, <<68121, 68149>>, <<68192, 68220>>,
     <<68224, 68252>>, <<68288, 68295>>, <<68297, 68324>>, <<68352, 68405>>, <<68416, 68437>>,
     <<68448, 68466>>, <<68480, 68497>>, <<68608, 68680>>, <<68736, 68786>>, <<68800, 68850>>,
     <<68864, 68899>>, <<69248, 69289>>, <<69296, 69297>>, <<69376, 69404>>, <<69415, 69415>>,
     <<69424, 69445>>, <<69488, 69505>>, <<69552, 69572>>, <<69600, 69622>>, <<69635, 69687>>,
     <<69745, 69746>>, <<69749, 69749>>, <<69763, 69807>>, <<69840, 69864>>, <<69891, 69926>>,
     <<69956, 69956>>, <<69959, 69959>>, <<69968, 70002>>, <<70006, 70006>>, <<70019, 70066>>,
     <<70081, 70084>>, <<70106, 70106>>, <<70108, 70108>>, <<70144, 70161>>, <<70163, 70187>>,
     <<70272, 70278>>, <<70280, 70280>>, <<70282, 70285>>, <<70287, 70301>>, <<70303, 70312>>,
     <<70320, 70366>>, <<70405, 70412>>, <<70415, 70416>>, <<70419, 70440>>, <<70442, 70448>>,
     <<70450, 70451>>, <<70453, 70457>>, <<70461, 70461>>, <<70480, 70480>>, <<70493, 70497>>,
     <<70656, 70708>>, <<70727, 70730>>, <<70751, 70753>>, <<70784, 70831>>, <<70852, 70853>>,
     <<70855, 70855>>, <<71040, 71086>>, <<71128, 71131>>, <<71168, 71215>>, <<71236, 71236>>,
     <<71296, 71338>>, <<71352, 71352>>, <<71424, 71450>>, <<71488, 71494>>, <<71680, 71723>>,
     <<71840, 71903>>, <<71935, 71942>>, <<71945, 71945>>, <<71948, 71955>>, <<71957, 71958>>,
     <<71960, 71983>>, <<71999, 71999>>, <<72001, 72001>>, <<72096, 72103>>, <<72106, 72144>>,
     <<72161, 72161>>, <<72163, 72163>>, <<72192, 72192>>, <<72203, 72242>>, <<72250, 72250>>,
     <<72272, 72272>>, <<72284, 72329>>, <<72349, 72349>>, <<72368, 72440>>, <<72704, 72712>>,
     <<72714, 72750>>, <<72768, 72768>>, <<72818, 72847>>, <<72960, 72966>>, <<72968, 72969>>,
     <<72971, 73008>>, <<73030, 73030>>, <<73056, 73061>>, <<73063, 73064>>, <<73066, 73097>>,
     <<73112, 73112>>, <<73440, 73458>>, <<73648, 73648>>, <<73728, 74649>>, <<74880, 75075>>,
     <<77712, 77808>>, <<77824, 78894>>, <<82944, 83526>>, <<92160, 92728>>, <<92736, 92766>>,
     <<92784, 92862>>, <<92880, 92909>>, <<92928, 92975>>, <<92992, 92995>>, <<93027, 93047>>,
     <<93053, 93071>>, <<93760, 93823>>, <<93952, 94026>>, <<94032, 94032>>, <<94099, 94111>>,
     <<94176, 94177>>, <<94179, 94179>>, <<94208, 100343>>, <<100352, 101589>>,
     <<101632, 101640>>, <<110576, 110579>>, <<110581, 110587>>, <<110589, 110590>>,
     <<110592, 110882>>, <<110928, 110930>>, <<110948, 110951>>, <<110960, 111355>>,
     <<113664, 113770>>, <<113776, 113788>>, <<113792, 113800>>, <<113808, 113817>>,
     <<119808, 119892>>, <<119894, 119964>>, <<119966, 119967>>, <<119970, 119970>>,
     <<119973, 119974>>, <<119977, 119980>>, <<119982, 119993>>, <<119995, 119995>>,
     <<119997, 120003>>, <<120005, 120069>>, <<120071, 120074>>, <<120077, 120084>>,
     <<120086, 120092>>, <<120094, 120121>>, <<120123, 120126>>, <<120128, 120132>>,
     <<120134, 120134>>, <<120138, 120144>>, <<120146, 120485>>, <<120488, 120512>>,
     <<120514, 120538>>, <<120540, 120570>>, <<120572, 120596>>, <<120598, 120628>>,
     <<120630, 120654>>, <<120656, 120686>>, <<120688, 120712>>, <<120714, 120744>>,
     <<120746, 120770>>, <<120772, 120779>>, <<122624, 122654>>, <<123136, 123180>>,
     <<123191, 123197>>, <<123214, 123214>>, <<123536, 123565>>, <<123584, 123627>>,
     <<124896, 124902>>, <<124904, 124907>>, <<124909, 124910>>, <<124912, 124926>>,
     <<124928, 125124>>, <<125184, 125251>>, <<125259, 125259>>, <<126464, 126467>>,
     <<126469, 126495>>, <<126497, 126498>>, <<126500, 126500>>, <<126503, 126503>>,
     <<126505, 126514>>, <<126516, 126519>>, <<126521, 126521>>, <<126523, 126523>>,
     <<126530, 126530>>, <<126535, 126535>>, <<126537, 126537>>, <<126539, 126539>>,
     <<126541, 126543>>, <<126545, 126546>>, <<126548, 126548>>, <<126551, 126551>>,
     <<126553, 126553>>, <<126555, 126555>>, <<126557, 126557>>, <<126559, 126559>>,
     <<126561, 126562>>, <<126564, 126564>>, <<126567, 126570>>, <<126572, 126578>>,
     <<126580, 126583>>, <<126585, 126588>>, <<126590, 126590>>, <<126592, 126601>>,
     <<126603, 126619>>, <<126625, 126627>>, <<126629, 126633>>, <<126635, 126651>>,
     <<131072, 173791>>, <<173824, 177976>>, <<177984, 178205>>, <<178208, 183969>>,
     <<183984, 191456>>, <<194560, 195101>>, <<196608, 201546>>>>
ALPHA ==
    ALPHA_LATIN1 \cup
    {Simbolo(cp) : cp \in UNION {ALPHA_RANGOS[k][1]..ALPHA_RANGOS[k][2] :
                                    k \in 1..Len(ALPHA_RANGOS)}}

\* the characters of str.isdigit that are no decimal digits
DIGITOS_NO_DECIMALES ==
    {"²", "³", "¹", "U+1369", "U+136A", "U+136B", "U+136C", "U+136D", "U+136E", "U+136F",
     "U+1370", "U+1371", "U+19DA", "U+2070", "U+2074", "U+2075", "U+2076", "U+2077", "U+2078",
     "U+2079", "U+2080", "U+2081", "U+2082", "U+2083", "U+2084", "U+2085", "U+2086", "U+2087",
     "U+2088", "U+2089", "U+2460", "U+2461", "U+2462", "U+2463", "U+2464", "U+2465", "U+2466",
     "U+2467", "U+2468", "U+2474", "U+2475", "U+2476", "U+2477", "U+2478", "U+2479", "U+247A",
     "U+247B", "U+247C", "U+2488", "U+2489", "U+248A", "U+248B", "U+248C", "U+248D", "U+248E",
     "U+248F", "U+2490", "U+24EA", "U+24F5", "U+24F6", "U+24F7", "U+24F8", "U+24F9", "U+24FA",
     "U+24FB", "U+24FC", "U+24FD", "U+24FF", "U+2776", "U+2777", "U+2778", "U+2779", "U+277A",
     "U+277B", "U+277C", "U+277D", "U+277E", "U+2780", "U+2781", "U+2782", "U+2783", "U+2784",
     "U+2785", "U+2786", "U+2787", "U+2788", "U+278A", "U+278B", "U+278C", "U+278D", "U+278E",
     "U+278F", "U+2790", "U+2791", "U+2792", "U+10A40", "U+10A41", "U+10A42", "U+10A43",
     "U+10E60", "U+10E61", "U+10E62", "U+10E63", "U+10E64", "U+10E65", "U+10E66", "U+10E67",
     "U+10E68", "U+11052", "U+11053", "U+11054", "U+11055", "U+11056", "U+11057", "U+11058",
     "U+11059", "U+1105A", "U+1F100", "U+1F101", "U+1F102", "U+1F103", "U+1F104", "U+1F105",
     "U+1F106", "U+1F107", "U+1F108", "U+1F109", "U+1F10A"}

\* _timelex.isword, isnum, isspace (lines 201-214)
isword_def(nextchar) == nextchar \in ALPHA
isnum(nextchar) == nextchar \in Digito \/ nextchar \in DIGITOS_NO_DECIMALES
isspace(nextchar) == nextchar \in Espacio

\* str.isdigit
isdigit(s) == Len(s) > 0 /\ \A k \in 1..Len(s) : isnum(s[k])

\* t.count(c)
Cuenta(t, c) == Cardinality({k \in 1..Len(t) : t[k] = c})

\* t.find(c): the index from 0 of the first c, -1 without one
Find(t, c) ==
    IF \E k \in 1..Len(t) : t[k] = c
    THEN (CHOOSE k \in 1..Len(t) : t[k] = c /\ \A j \in 1..(k - 1) : t[j] # c) - 1
    ELSE -1

\* _timelex.get_token, the loop of lines 92-158, reading s from position p.
\* charstack holds at most the character that ended a token, which is read
\* again: the position stays on it.
LeerToken_def(s, p, state, token, seenletters) ==
    IF p > Len(s)
    THEN [token |-> token, state |-> state, seenletters |-> seenletters, p |-> p]
    ELSE
      LET nextchar == s[p]
          Sigue(estado, visto) ==
              LeerToken(s, p + 1, estado, Append(token, nextchar), visto)
          Emite(visto) ==
              [token |-> token, state |-> state, seenletters |-> visto, p |-> p]
      IN  IF state = "" THEN
              IF isword(nextchar) THEN LeerToken(s, p + 1, "a", <<nextchar>>, FALSE)
              ELSE IF isnum(nextchar) THEN LeerToken(s, p + 1, "0", <<nextchar>>, FALSE)
              ELSE IF isspace(nextchar)
                   THEN [token |-> <<" ">>, state |-> "", seenletters |-> FALSE, p |-> p + 1]
              ELSE [token |-> <<nextchar>>, state |-> "", seenletters |-> FALSE, p |-> p + 1]
          ELSE IF state = "a" THEN
              IF isword(nextchar) THEN Sigue("a", TRUE)
              ELSE IF nextchar = "." THEN Sigue("a.", TRUE)
              ELSE Emite(TRUE)
          ELSE IF state = "0" THEN
              IF isnum(nextchar) THEN Sigue("0", seenletters)
              ELSE IF nextchar = "." \/ (nextchar = "," /\ Len(token) >= 2)
                   THEN Sigue("0.", seenletters)
              ELSE Emite(seenletters)
          ELSE IF state = "a." THEN
              IF nextchar = "." \/ isword(nextchar) THEN Sigue("a.", TRUE)
              ELSE IF isnum(nextchar) /\ token[Len(token)] = "." THEN Sigue("0.", TRUE)
              ELSE Emite(TRUE)
          ELSE
              IF nextchar = "." \/ isnum(nextchar) THEN Sigue("0.", seenletters)
              ELSE IF isword(nextchar) /\ token[Len(token)] = "." THEN Sigue("a.", seenletters)
              ELSE Emite(seenletters)

\* _split_decimal.split(token) without its empty pieces: the runs between
\* the points and commas, and each point and comma
RECURSIVE Trozos(_, _)
Trozos(t, actual) ==
    LET hecho == IF actual = <<>> THEN <<>> ELSE <<actual>>
    IN  IF t = <<>> THEN hecho
        ELSE IF Head(t) \in {".", ","}
             THEN hecho \o <<<<Head(t)>>>> \o Trozos(Tail(t), <<>>)
        ELSE Trozos(Tail(t), Append(actual, Head(t)))

\* _timelex.get_token (lines 80-173): the token read from position p, with
\* the pieces it leaves on tokenstack after it, and the position after
get_token_def(s, p) ==
    LET r == LeerToken(s, p, "", <<>>, FALSE)
        partir == /\ r.state \in {"a.", "0."}
                  /\ \/ r.seenletters
                     \/ Cuenta(r.token, ".") > 1
                     \/ r.token[Len(r.token)] \in {".", ","}
        l == IF partir THEN Trozos(r.token, <<>>) ELSE <<r.token>>
        token == IF r.state = "0." /\ Cuenta(l[1], ".") = 0
                 THEN [k \in 1..Len(l[1]) |-> IF l[1][k] = "," THEN "." ELSE l[1][k]]
                 ELSE l[1]
    IN  [tokens |-> <<token>> \o Tail(l), p |-> r.p]

TokensDesde_def(s, p) ==
    IF p > Len(s) THEN <<>>
    ELSE LET g == get_token(s, p) IN g.tokens \o TokensDesde(s, g.p)

\* _timelex.split: the tokens of the string (NUL characters are not read,
\* lines 101-103)
timelex_split_def(s) == TokensDesde(SelectSeq(s, LAMBDA c : c # "U+0000"), 1)

\* parserinfo: the tables (lines 282-313) and their lookups, on name.lower()
JUMP ==
    {<<" ">>, <<".">>, <<",">>, <<";">>, <<"-">>, <<"/">>, <<"'">>, <<"a", "t">>, <<"o", "n">>, <<"a", "n", "d">>, <<"a", "d">>, <<"m">>, <<"t">>, <<"o", "f">>,
     <<"s", "t">>, <<"n", "d">>, <<"r", "d">>, <<"t", "h">>}
WEEKDAYS ==
    <<{<<"m", "o", "n">>, <<"m", "o", "n", "d", "a", "y">>}, {<<"t", "u", "e">>, <<"t", "u", "e", "s", "d", "a", "y">>}, {<<"w", "e", "d">>, <<"w", "e", "d", "n", "e", "s", "d", "a", "y">>}, {<<"t", "h", "u">>, <<"t", "h", "u", "r", "s", "d", "a", "y">>},
      {<<"f", "r", "i">>, <<"f", "r", "i", "d", "a", "y">>}, {<<"s", "a", "t">>, <<"s", "a", "t", "u", "r", "d", "a", "y">>}, {<<"s", "u", "n">>, <<"s", "u", "n", "d", "a", "y">>}>>
MONTHS ==
    <<{<<"j", "a", "n">>, <<"j", "a", "n", "u", "a", "r", "y">>}, {<<"f", "e", "b">>, <<"f", "e", "b", "r", "u", "a", "r", "y">>}, {<<"m", "a", "r">>, <<"m", "a", "r", "c", "h">>}, {<<"a", "p", "r">>, <<"a", "p", "r", "i", "l">>},
      {<<"m", "a", "y">>}, {<<"j", "u", "n">>, <<"j", "u", "n", "e">>}, {<<"j", "u", "l">>, <<"j", "u", "l", "y">>}, {<<"a", "u", "g">>, <<"a", "u", "g", "u", "s", "t">>},
      {<<"s", "e", "p">>, <<"s", "e", "p", "t">>, <<"s", "e", "p", "t", "e", "m", "b", "e", "r">>}, {<<"o", "c", "t">>, <<"o", "c", "t", "o", "b", "e", "r">>}, {<<"n", "o", "v">>, <<"n", "o", "v", "e", "m", "b", "e", "r">>},
      {<<"d", "e", "c">>, <<"d", "e", "c", "e", "m", "b", "e", "r">>}>>
HMS ==
    <<{<<"h">>, <<"h", "o", "u", "r">>, <<"h", "o", "u", "r", "s">>}, {<<"m">>, <<"m", "i", "n", "u", "t", "e">>, <<"m", "i", "n", "u", "t", "e", "s">>}, {<<"s">>, <<"s", "e", "c", "o", "n", "d">>, <<"s", "e", "c", "o", "n", "d", "s">>}>>
AMPM == <<{<<"a", "m">>, <<"a">>}, {<<"p", "m">>, <<"p">>}>>
UTCZONE == {<<"U", "T", "C">>, <<"G", "M", "T">>, <<"Z">>, <<"z">>}
PERTAIN == {<<"o", "f">>}

\* the index from 0 of the entry of the table that holds the name
Entrada_de_def(tabla, name) ==
    IF \E k \in 1..Len(tabla) : Lower(name) \in tabla[k]
    THEN Some((CHOOSE k \in 1..Len(tabla) : Lower(name) \in tabla[k]) - 1)
    ELSE None

info_jump_def(name) == Lower(name) \in JUMP
info_weekday_def(name) == Entrada_de(WEEKDAYS, name)
info_month_def(name) ==
    IF Entrada_de(MONTHS, name).some THEN Some(Entrada_de(MONTHS, name).v + 1) ELSE None
info_hms_def(name) == Entrada_de(HMS, name)
info_ampm_def(name) == Entrada_de(AMPM, name)
info_pertain_def(name) == Lower(name) \in PERTAIN
info_utczone_def(name) == Lower(name) \in {Lower(z) : z \in UTCZONE}
\* parserinfo.tzoffset (lines 366-370): the name itself among the lowered
\* names of UTCZONE, and TZOFFSET is empty
info_tzoffset_def(name) ==
    IF name \in {Lower(z) : z \in UTCZONE} THEN Some([signal |-> 1, hour |-> 0, min |-> 0])
    ELSE None

\* parserinfo.convertyear (lines 372-387), _year being the current year
convertyear(year, century_specified) ==
    LET century == (HOY.year \div 100) * 100
        y == year + century
    IN  IF year < 100 /\ ~century_specified
        THEN (IF y >= HOY.year + 50 THEN y - 100
              ELSE IF y < HOY.year - 50 THEN y + 100
              ELSE y)
        ELSE year

\* int(s) does not raise
EsEntero(s) == Len(s) > 0 /\ \A k \in 1..Len(s) : s[k] \in Digito

SAT == 10000000

\* int(s), up to SAT
RECURSIVE IntSat(_)
IntSat(s) ==
    IF s = <<>> THEN 0
    ELSE Min(SAT, 10 * IntSat(SubSeq(s, 1, Len(s) - 1)) + ValorDeDigito(s[Len(s)]))

\* the digits of s without the zeros it starts with
RECURSIVE SinCerosIzquierda(_)
SinCerosIzquierda(s) ==
    IF Len(s) > 0 /\ ValorDeDigito(s[1]) = 0 THEN SinCerosIzquierda(Tail(s)) ELSE s

\* the digits of s without the zeros it ends with
RECURSIVE SinCerosDerecha(_)
SinCerosDerecha(s) ==
    IF Len(s) > 0 /\ ValorDeDigito(s[Len(s)]) = 0
    THEN SinCerosDerecha(SubSeq(s, 1, Len(s) - 1)) ELSE s

\* Decimal(val) is a finite number: digits, or digits, a point and digits
EsNumero_def(val) ==
    \/ EsEntero(val)
    \/ /\ Cuenta(val, ".") = 1
       /\ EsEntero(SubSeq(val, 1, Find(val, ".")))
       /\ EsEntero(SubSeq(val, Find(val, ".") + 2, Len(val)))

\* float(value_repr) does not raise (line 722): a number, or the name of
\* an infinity or of a NaN
ConFloat_def(value_repr) ==
    EsNumero(value_repr) \/ Lower(value_repr) \in {<<"i", "n", "f">>, <<"i", "n", "f", "i", "n", "i", "t", "y">>, <<"n", "a", "n">>}

\* Decimal(val): the whole part up to SAT and the digits after the point
Decimal_def(val) ==
    IF Cuenta(val, ".") = 0 THEN [ent |-> IntSat(val), frac |-> <<>>]
    ELSE [ent |-> IntSat(SubSeq(val, 1, Find(val, "."))),
          frac |-> SinCerosDerecha(SubSeq(val, Find(val, ".") + 2, Len(val)))]
DecimalDe(n) == [ent |-> n, frac |-> <<>>]

\* value % 1 is not zero
ConResto(value) == Len(value.frac) > 0
\* a <= value and value <= b
DecimalEntre(value, a, b) ==
    value.ent >= a /\ (value.ent < b \/ (value.ent = b /\ ~ConResto(value)))

\* the fractions that int(60 * (value % 1)) is computed for
MaxFraccion == 7

RECURSIVE Potencia10(_)
Potencia10(n) == IF n = 0 THEN 1 ELSE 10 * Potencia10(n - 1)

\* int(60 * (value % 1)), for a fraction of up to MaxFraccion digits
Sesenta(value) ==
    (60 * IntSat(Primeras(value.frac, MaxFraccion)))
        \div Potencia10(Min(Len(value.frac), MaxFraccion))

\* the state of _parse: the position i in the tokens, res, ymd, whether an
\* IndexError or ValueError was raised (error), and whether a number was met
\* that the model does not compute with (otro)
ResInicial ==
    [i |-> 0, error |-> FALSE, otro |-> FALSE,
     ymd |-> <<>>, century_specified |-> FALSE,
     ystridx |-> None, mstridx |-> None, dstridx |-> None,
     weekday |-> None, hour |-> None, minute |-> None, second |-> None,
     microsecond |-> None, ampm |-> None, tzname |-> None, tzoffset |-> None]

Err(st) == [st EXCEPT !.error = TRUE]
Avanza(st, n) == IF st.error THEN st ELSE [st EXCEPT !.i = @ + n]

\* _ymd.append, lines 448-462: the value is appended and its label noted
YmdPoner_def(st, n, label) ==
    LET idx == Len(st.ymd)
        s1 == [st EXCEPT !.ymd = Append(@, n)]
    IN  IF label = "M"
        THEN (IF st.mstridx.some THEN Err(s1) ELSE [s1 EXCEPT !.mstridx = Some(idx)])
        ELSE IF label = "D"
        THEN (IF st.dstridx.some THEN Err(s1) ELSE [s1 EXCEPT !.dstridx = Some(idx)])
        ELSE IF label = "Y"
        THEN (IF st.ystridx.some THEN Err(s1) ELSE [s1 EXCEPT !.ystridx = Some(idx)])
        ELSE s1

\* _ymd.append of a string (lines 435-441 and 448)
ymd_append_str_def(st, val, label) ==
    LET siglo == isdigit(val) /\ Len(val) > 2
    IN  IF st.error THEN st
        ELSE IF siglo /\ label \notin {"", "Y"} THEN Err(st)
        ELSE IF ~EsEntero(val) THEN Err(st)
        ELSE YmdPoner([st EXCEPT !.century_specified = @ \/ siglo], IntSat(val),
                      IF siglo THEN "Y" ELSE label)

\* _ymd.append of a number (lines 442-448)
ymd_append_def(st, val, label) ==
    LET siglo == val.ent > 100 \/ (val.ent = 100 /\ ConResto(val))
    IN  IF st.error THEN st
        ELSE IF siglo /\ label \notin {"", "Y"} THEN Err(st)
        ELSE YmdPoner([st EXCEPT !.century_specified = @ \/ siglo], val.ent,
                      IF siglo THEN "Y" ELSE label)

\* calendar.monthrange(year, month)[1]
monthrange(year, month) == DiasDelMes(year, month)

\* _ymd.could_be_day (lines 420-432)
could_be_day_def(st, value) ==
    IF st.dstridx.some THEN FALSE
    ELSE IF ~st.mstridx.some THEN DecimalEntre(value, 1, 31)
    ELSE IF ~st.ystridx.some
         THEN DecimalEntre(value, 1, monthrange(2000, st.ymd[st.mstridx.v + 1]))
    ELSE DecimalEntre(value, 1, monthrange(st.ymd[st.ystridx.v + 1],
                                           st.ymd[st.mstridx.v + 1]))

\* _ymd._resolve_from_stridxs (lines 464-480)
resolve_from_stridxs_def(st) ==
    LET dados == {x \in 0..2 : \/ (st.ystridx.some /\ st.ystridx.v = x)
                                \/ (st.mstridx.some /\ st.mstridx.v = x)
                                \/ (st.dstridx.some /\ st.dstridx.v = x)}
        missing == CHOOSE x \in 0..2 : x \notin dados
        deducir == Len(st.ymd) = 3 /\ Cardinality(dados) = 2
        De(stridx) == IF stridx.some THEN Some(st.ymd[stridx.v + 1])
                      ELSE IF deducir THEN Some(st.ymd[missing + 1])
                      ELSE None
    IN  [error |-> FALSE, year |-> De(st.ystridx), month |-> De(st.mstridx),
         day |-> De(st.dstridx)]

\* _ymd.resolve_ymd (lines 482-565) with yearfirst and dayfirst False
resolve_ymd_def(st) ==
    LET len_ymd == Len(st.ymd)
        el(k) == st.ymd[k + 1]
        n_strids == Cardinality({x \in {"y", "m", "d"} :
                        \/ (x = "y" /\ st.ystridx.some)
                        \/ (x = "m" /\ st.mstridx.some)
                        \/ (x = "d" /\ st.dstridx.some)})
        R(year, month, day) ==
            [error |-> FALSE, year |-> year, month |-> month, day |-> day]
        mstridx == st.mstridx
    IN  IF (len_ymd = n_strids /\ n_strids > 0) \/ (len_ymd = 3 /\ n_strids = 2)
        THEN resolve_from_stridxs(st)
        ELSE IF len_ymd > 3 THEN [error |-> TRUE, year |-> None, month |-> None, day |-> None]
        ELSE IF len_ymd = 1 \/ (mstridx.some /\ len_ymd = 2) THEN
            LET month == IF mstridx.some THEN Some(el(mstridx.v)) ELSE None
                other == IF mstridx.some
                         THEN el((mstridx.v - 1) % len_ymd)
                         ELSE el(0)
            IN  IF len_ymd > 1 \/ ~mstridx.some
                THEN (IF other > 31 THEN R(Some(other), month, None)
                      ELSE R(None, month, Some(other)))
                ELSE R(None, month, None)
        ELSE IF len_ymd = 2 THEN
            IF el(0) > 31 THEN R(Some(el(0)), Some(el(1)), None)
            ELSE IF el(1) > 31 THEN R(Some(el(1)), Some(el(0)), None)
            ELSE R(None, Some(el(0)), Some(el(1)))
        ELSE IF len_ymd = 3 THEN
            IF mstridx.some /\ mstridx.v = 0 THEN
                IF el(1) > 31 THEN R(Some(el(1)), Some(el(0)), Some(el(2)))
                ELSE R(Some(el(2)), Some(el(0)), Some(el(1)))
            ELSE IF mstridx.some /\ mstridx.v = 1 THEN
                IF el(0) > 31 THEN R(Some(el(0)), Some(el(1)), Some(el(2)))
                ELSE R(Some(el(2)), Some(el(1)), Some(el(0)))
            ELSE IF mstridx.some /\ mstridx.v = 2 THEN
                IF el(1) > 31 THEN R(Some(el(1)), Some(el(2)), Some(el(0)))
                ELSE R(Some(el(0)), Some(el(2)), Some(el(1)))
            ELSE
                IF el(0) > 31 \/ (st.ystridx.some /\ st.ystridx.v = 0)
                THEN R(Some(el(0)), Some(el(1)), Some(el(2)))
                ELSE IF el(0) > 12 THEN R(Some(el(2)), Some(el(1)), Some(el(0)))
                ELSE R(Some(el(2)), Some(el(0)), Some(el(1)))
        ELSE R(None, None, None)

\* parser._adjust_ampm (lines 1078-1084)
adjust_ampm(hour, ampm) ==
    IF hour < 12 /\ ampm = 1 THEN hour + 12
    ELSE IF hour = 12 /\ ampm = 0 THEN 0
    ELSE hour

\* parser._could_be_tzname (lines 1049-1055)
could_be_tzname(hour, tzname, tzoffset, token) ==
    /\ hour.some
    /\ ~tzname.some
    /\ ~tzoffset.some
    /\ Len(token) <= 5
    /\ ((\A k \in 1..Len(token) : token[k] \in AZ) \/ token \in UTCZONE)

\* parser._parsems (lines 1109-1117): raised, or the seconds and the
\* microseconds
parsems_def(value) ==
    LET i_ == SubSeq(value, 1, Find(value, "."))
        f == SubSeq(value, Find(value, ".") + 2, Len(value))
        f6 == Primeras(f \o <<"0", "0", "0", "0", "0", "0">>, 6)
        Lanza == [error |-> TRUE, second |-> 0, microsecond |-> 0]
    IN  IF Cuenta(value, ".") = 0
        THEN (IF EsEntero(value)
              THEN [error |-> FALSE, second |-> IntSat(value), microsecond |-> 0]
              ELSE Lanza)
        ELSE IF Cuenta(value, ".") > 1 THEN Lanza
        ELSE IF EsEntero(i_) /\ EsEntero(f6)
        THEN [error |-> FALSE, second |-> IntSat(i_), microsecond |-> IntSat(f6)]
        ELSE Lanza

PonerSegundos_def(st, value) ==
    LET r == parsems(value)
    IN  IF st.error THEN st
        ELSE IF r.error THEN Err(st)
        ELSE [st EXCEPT !.second = Some(r.second), !.microsecond = Some(r.microsecond)]

\* parser._parse_min_sec (lines 1086-1093), assigned to res.minute and
\* res.second
PonerMinSec_def(st, value) ==
    [st EXCEPT !.minute = Some(value.ent),
               !.second = IF ConResto(value) THEN Some(Sesenta(value)) ELSE None,
               !.otro = @ \/ Len(value.frac) > MaxFraccion]

\* parser._find_hms_idx (lines 1004-1036)
find_hms_idx_def(idx, tokens, allow_jump) ==
    LET len_l == Len(tokens)
        T(j) == tokens[j + 1]
    IN  IF idx + 1 < len_l /\ info_hms(T(idx + 1)).some THEN Some(idx + 1)
        ELSE IF /\ allow_jump /\ idx + 2 < len_l /\ T(idx + 1) = <<" ">>
                /\ info_hms(T(idx + 2)).some
             THEN Some(idx + 2)
        ELSE IF idx > 0 /\ info_hms(T(idx - 1)).some THEN Some(idx - 1)
        ELSE IF /\ 1 < idx /\ idx = len_l - 1 /\ T(idx - 1) = <<" ">>
                /\ info_hms(T(idx - 2)).some
             THEN Some(idx - 2)
        ELSE None

\* parser._assign_hms (lines 1038-1047)
assign_hms_def(st, value_repr, hms) ==
    LET value == Decimal(value_repr)
    IN  IF hms = 0
        THEN [st EXCEPT !.hour = Some(value.ent),
                        !.minute = IF ConResto(value) THEN Some(Sesenta(value)) ELSE @,
                        !.otro = @ \/ Len(value.frac) > MaxFraccion]
        ELSE IF hms = 1 THEN PonerMinSec(st, value)
        ELSE IF hms = 2 THEN PonerSegundos(st, value_repr)
        ELSE st

\* parser._parse_numeric_token (lines 858-1002) on the token at st.i: the
\* state with i the index returned
parse_numeric_token_def(tokens, st) ==
    LET idx == st.i
        len_l == Len(tokens)
        T(j) == tokens[j + 1]
        value_repr == T(idx)
        s == value_repr
        len_li == Len(value_repr)
        value == Decimal(value_repr)
        S(a, b) == SubSeq(s, a + 1, Min(b, Len(s)))
        Hora(st_, texto) ==
            IF st_.error THEN st_
            ELSE IF ~EsEntero(texto) THEN Err(st_)
            ELSE [st_ EXCEPT !.hour = Some(IntSat(texto))]
        Minuto(st_, texto) ==
            IF st_.error THEN st_
            ELSE IF ~EsEntero(texto) THEN Err(st_)
            ELSE [st_ EXCEPT !.minute = Some(IntSat(texto))]
        Segundo(st_, texto) ==
            IF st_.error THEN st_
            ELSE IF ~EsEntero(texto) THEN Err(st_)
            ELSE [st_ EXCEPT !.second = Some(IntSat(texto))]
        hms_idx == find_hms_idx(idx, tokens, TRUE)
    IN  IF ~EsNumero(value_repr) THEN Err(st)
        ELSE IF /\ Len(st.ymd) = 3 /\ len_li \in {2, 4} /\ ~st.hour.some
                /\ (idx + 1 >= len_l
                      \/ (T(idx + 1) # <<":">> /\ ~info_hms(T(idx + 1)).some))
        THEN \* 19990101T23[59]
             IF len_li = 4 THEN Minuto(Hora(st, S(0, 2)), S(2, 4))
             ELSE Hora(st, S(0, 2))
        ELSE IF len_li = 6 \/ (len_li > 6 /\ Find(s, ".") = 6)
        THEN \* YYMMDD or HHMMSS[.ss]
             IF Len(st.ymd) = 0 /\ Cuenta(s, ".") = 0
             THEN ymd_append_str(ymd_append_str(ymd_append_str(st, S(0, 2), ""),
                                                S(2, 4), ""), S(4, len_li), "")
             ELSE PonerSegundos(Minuto(Hora(st, S(0, 2)), S(2, 4)), S(4, len_li))
        ELSE IF len_li \in {8, 12, 14}
        THEN \* YYYYMMDD[hhmm[ss]]
             LET s1 == ymd_append_str(ymd_append_str(ymd_append_str(st, S(0, 4), "Y"),
                                                     S(4, 6), ""), S(6, 8), "")
             IN  IF len_li > 8
                 THEN (IF len_li > 12
                       THEN Segundo(Minuto(Hora(s1, S(8, 10)), S(10, 12)), S(12, len_li))
                       ELSE Minuto(Hora(s1, S(8, 10)), S(10, 12)))
                 ELSE s1
        ELSE IF hms_idx.some
        THEN \* HH[ ]h or MM[ ]m or SS[.ss][ ]s
             LET adelante == hms_idx.v > idx
                 hms == IF adelante THEN info_hms(T(hms_idx.v)).v
                        ELSE info_hms(T(hms_idx.v)).v + 1
                 new_idx == IF adelante THEN hms_idx.v ELSE idx
             IN  [assign_hms(st, value_repr, hms) EXCEPT !.i = new_idx]
        ELSE IF idx + 2 < len_l /\ T(idx + 1) = <<":">>
        THEN \* HH:MM[:SS[.ss]]
             IF ~EsNumero(T(idx + 2)) THEN Err(st)
             ELSE LET s1 == PonerMinSec([st EXCEPT !.hour = Some(value.ent)],
                                        Decimal(T(idx + 2)))
                  IN  IF idx + 4 < len_l /\ T(idx + 3) = <<":">>
                      THEN Avanza(PonerSegundos(s1, T(idx + 4)), 4)
                      ELSE Avanza(s1, 2)
        ELSE IF idx + 1 < len_l /\ T(idx + 1) \in {<<"-">>, <<"/">>, <<".">>}
        THEN LET sep == T(idx + 1)
                 s1 == ymd_append_str(st, value_repr, "")
             IN  IF s1.error THEN s1
                 ELSE IF idx + 2 < len_l /\ ~info_jump(T(idx + 2))
                 THEN LET s2 == IF isdigit(T(idx + 2))
                                THEN \* 01-01[-01]
                                     ymd_append_str(s1, T(idx + 2), "")
                                ELSE \* 01-Jan[-01]
                                     IF info_month(T(idx + 2)).some
                                     THEN ymd_append(s1, DecimalDe(info_month(T(idx + 2)).v), "M")
                                     ELSE Err(s1)
                      IN  IF s2.error THEN s2
                          ELSE IF idx + 3 < len_l /\ T(idx + 3) = sep
                          THEN \* we have three members
                               IF idx + 4 >= len_l THEN Err(s2)
                               ELSE IF info_month(T(idx + 4)).some
                               THEN Avanza(ymd_append(s2, DecimalDe(info_month(T(idx + 4)).v),
                                                      "M"), 4)
                               ELSE Avanza(ymd_append_str(s2, T(idx + 4), ""), 4)
                          ELSE Avanza(s2, 2)
                 ELSE Avanza(s1, 1)
        ELSE IF idx + 1 >= len_l \/ info_jump(T(idx + 1))
        THEN IF idx + 2 < len_l /\ info_ampm(T(idx + 2)).some
             THEN \* 12 am
                  Avanza([st EXCEPT !.hour = Some(adjust_ampm(value.ent,
                                                              info_ampm(T(idx + 2)).v))], 2)
             ELSE \* year, month or day
                  Avanza(ymd_append(st, value, ""), 1)
        ELSE IF info_ampm(T(idx + 1)).some /\ value.ent < 24
        THEN \* 12am
             Avanza([st EXCEPT !.hour = Some(adjust_ampm(value.ent, info_ampm(T(idx + 1)).v))],
                    1)
        ELSE IF could_be_day(st, value) THEN ymd_append(st, value, "")
        ELSE Err(st)

\* the digits of a number of a time zone offset that the model computes with
MaxDigitosOffset == 9

\* _parse, lines 728-751: the token is the name of a month
RamaMes_def(l, st) ==
    LET i_ == st.i
        len_l == Len(l)
        T(j) == l[j + 1]
        s1 == ymd_append(st, DecimalDe(info_month(T(i_)).v), "M")
    IN  IF s1.error \/ i_ + 1 >= len_l THEN s1
        ELSE IF T(i_ + 1) \in {<<"-">>, <<"/">>}
        THEN \* Jan-01[-99]
             IF i_ + 2 >= len_l THEN Err(s1)
             ELSE LET s2 == ymd_append_str(s1, T(i_ + 2), "")
                  IN  IF s2.error THEN s2
                      ELSE IF i_ + 3 < len_l /\ T(i_ + 3) = T(i_ + 1)
                      THEN \* Jan-01-99
                           IF i_ + 4 >= len_l THEN Err(s2)
                           ELSE Avanza(ymd_append_str(s2, T(i_ + 4), ""), 4)
                      ELSE Avanza(s2, 2)
        ELSE IF /\ i_ + 4 < len_l /\ T(i_ + 1) = <<" ">> /\ T(i_ + 3) = <<" ">>
                /\ info_pertain(T(i_ + 2))
        THEN \* Jan of 01: the text of the converted year is appended
             IF isdigit(T(i_ + 4))
             THEN (IF ~EsEntero(T(i_ + 4)) THEN Err(s1)
                   ELSE LET year == convertyear(IntSat(T(i_ + 4)), FALSE)
                        IN  IF year >= 100
                            THEN Avanza(YmdPoner([s1 EXCEPT !.century_specified = TRUE],
                                                 year, "Y"), 4)
                            ELSE Avanza(YmdPoner(s1, year, "Y"), 4))
             ELSE Avanza(s1, 4)
        ELSE s1

\* _parse, lines 753-762: the token is an AM or PM flag (_ampm_valid, lines
\* 1057-1076, raises without an hour of a 12-hour clock)
RamaAmPm_def(l, st) ==
    IF ~st.hour.some THEN Err(st)
    ELSE IF ~(0 <= st.hour.v /\ st.hour.v <= 12) THEN Err(st)
    ELSE [st EXCEPT !.hour = Some(adjust_ampm(st.hour.v, info_ampm(l[st.i + 1]).v)),
                    !.ampm = info_ampm(l[st.i + 1])]

\* _parse, lines 764-779: the token may be the name of a time zone.  The
\* sign after it is inverted in the list (line 771, TokensTras), and is read
\* as a sign by the next turn
RamaTzname_def(l, st) ==
    LET i_ == st.i
        tok == l[i_ + 1]
    IN  IF i_ + 1 < Len(l) /\ l[i_ + 2] \in {<<"+">>, <<"-">>}
        THEN [st EXCEPT !.tzname = IF info_utczone(tok) THEN None ELSE Some(tok),
                        !.tzoffset = None]
        ELSE [st EXCEPT !.tzname = Some(tok), !.tzoffset = info_tzoffset(tok)]

\* _parse, lines 781-821: the token is the sign of a numeric time zone
RamaSigno_def(l, st) ==
    LET i_ == st.i
        len_l == Len(l)
        T(j) == l[j + 1]
        signal == IF T(i_) = <<"+">> THEN 1 ELSE -1
        Offset(st_, h, m, n) ==
            Avanza([st_ EXCEPT !.tzoffset = Some([signal |-> signal, hour |-> IntSat(h),
                                                  min |-> IntSat(m)]),
                               !.otro = @ \/ Len(SinCerosIzquierda(h)) > MaxDigitosOffset
                                          \/ Len(SinCerosIzquierda(m)) > MaxDigitosOffset],
                   n)
        s1 == IF i_ + 1 >= len_l THEN Err(st)
              ELSE IF Len(T(i_ + 1)) = 4
              THEN \* -0300
                   IF EsEntero(SubSeq(T(i_ + 1), 1, 2)) /\ EsEntero(SubSeq(T(i_ + 1), 3, 4))
                   THEN Offset(st, SubSeq(T(i_ + 1), 1, 2), SubSeq(T(i_ + 1), 3, 4), 0)
                   ELSE Err(st)
              ELSE IF i_ + 2 < len_l /\ T(i_ + 2) = <<":">>
              THEN \* -03:00
                   IF ~EsEntero(T(i_ + 1)) \/ i_ + 3 >= len_l THEN Err(st)
                   ELSE IF ~EsEntero(T(i_ + 3)) THEN Err(st)
                   ELSE Offset(st, T(i_ + 1), T(i_ + 3), 2)
              ELSE IF Len(T(i_ + 1)) <= 2
              THEN \* -[0]3
                   IF EsEntero(T(i_ + 1)) THEN Offset(st, T(i_ + 1), <<>>, 0) ELSE Err(st)
              ELSE Err(st)
        i2 == s1.i
    IN  IF s1.error THEN s1
        ELSE IF /\ i2 + 5 < len_l /\ info_jump(T(i2 + 2)) /\ T(i2 + 3) = <<"(">>
                /\ T(i2 + 5) = <<")">> /\ 3 <= Len(T(i2 + 4))
                /\ could_be_tzname(s1.hour, s1.tzname, None, T(i2 + 4))
        THEN \* -0300 (BRST)
             Avanza([s1 EXCEPT !.tzname = Some(T(i2 + 4))], 5)
        ELSE Avanza(s1, 1)

\* _parse, lines 715-829: one turn of the loop over the tokens
ParsePaso_def(l, st) ==
    LET tok == l[st.i + 1]
    IN  Avanza(IF ConFloat(tok) THEN parse_numeric_token(l, st)
               ELSE IF info_weekday(tok).some THEN [st EXCEPT !.weekday = info_weekday(tok)]
               ELSE IF info_month(tok).some THEN RamaMes(l, st)
               ELSE IF info_ampm(tok).some THEN RamaAmPm(l, st)
               ELSE IF could_be_tzname(st.hour, st.tzname, st.tzoffset, tok)
                    THEN RamaTzname(l, st)
               ELSE IF st.hour.some /\ tok \in {<<"+">>, <<"-">>} THEN RamaSigno(l, st)
               ELSE IF ~info_jump(tok) THEN Err(st)
               ELSE st,
               1)

\* _parse, line 771: the turn of the loop that takes the token for the name
\* of a time zone inverts the sign that follows it, in the list itself; the
\* turns after it read the list so changed
TokensTras(l, st) ==
    LET tok == l[st.i + 1]
    IN  IF /\ ~ConFloat(tok) /\ ~info_weekday(tok).some /\ ~info_month(tok).some
           /\ ~info_ampm(tok).some
           /\ could_be_tzname(st.hour, st.tzname, st.tzoffset, tok)
           /\ st.i + 1 < Len(l) /\ l[st.i + 2] \in {<<"+">>, <<"-">>}
        THEN [l EXCEPT ![st.i + 2] = IF @ = <<"+">> THEN <<"-">> ELSE <<"+">>]
        ELSE l

ParseDesde_def(l, st) ==
    IF st.error \/ st.i >= Len(l) THEN st
    ELSE ParseDesde(TokensTras(l, st), ParsePaso(l, st))

\* date + timedelta(days=n), for n of a week at most
RECURSIVE SumarDias(_, _)
SumarDias(f, n) ==
    IF n = 0 THEN f
    ELSE SumarDias(IF f.day < DiasDelMes(f.year, f.month)
                   THEN [f EXCEPT !.day = @ + 1]
                   ELSE IF f.month < 12 THEN [f EXCEPT !.month = @ + 1, !.day = 1]
                   ELSE [year |-> f.year + 1, month |-> 1, day |-> 1],
                   n - 1)

\* parser.parse (lines 1367-1381: parse, then _build_naive, lines 1207-1233,
\* on default = today at midnight): raised, or the date of the datetime
\* returned.  otro: the string holds a number the model does not compute
\* with, and the call may raise instead
parser_parse_def(timestr) ==
    LET st == ParseDesde(timelex_split(timestr), ResInicial)
        ymd == IF st.error THEN [error |-> TRUE] ELSE resolve_ymd(st)
        Levantada == [raised |-> TRUE, fecha |-> HOY, otro |-> FALSE]
    IN  IF st.error \/ ymd.error THEN Levantada
        ELSE
          LET year == IF ymd.year.some
                      THEN Some(convertyear(ymd.year.v, st.century_specified))
                      ELSE None
              vacio == /\ ~year.some /\ ~ymd.month.some /\ ~ymd.day.some
                       /\ ~st.weekday.some /\ ~st.hour.some /\ ~st.minute.some
                       /\ ~st.second.some /\ ~st.microsecond.some
                       /\ ~st.tzname.some /\ ~st.tzoffset.some /\ ~st.ampm.some
              cyear == IF year.some THEN year.v ELSE HOY.year
              cmonth == IF ymd.month.some THEN ymd.month.v ELSE HOY.month
              day == IF ymd.day.some THEN ymd.day.v
                     ELSE IF cmonth \in 1..12 /\ HOY.day > monthrange(cyear, cmonth)
                     THEN monthrange(cyear, cmonth)
                     ELSE HOY.day
              EnHora(x, tope) == ~x.some \/ (0 <= x.v /\ x.v <= tope)
              valida == /\ cyear \in 1..9999
                        /\ cmonth \in 1..12
                        /\ 1 <= day /\ day <= DiasDelMes(cyear, cmonth)
                        /\ EnHora(st.hour, 23) /\ EnHora(st.minute, 59)
                        /\ EnHora(st.second, 59)
              naive == Fecha(cyear, cmonth, day)
              salto == IF st.weekday.some /\ (~ymd.day.some \/ ymd.day.v = 0)
                       THEN (7 - weekday(naive) + st.weekday.v) % 7
                       ELSE 0
          IN  IF vacio \/ ~valida THEN Levantada
              ELSE IF SumarDias(naive, salto).year > 9999 THEN Levantada
              ELSE [raised |-> FALSE, fecha |-> SumarDias(naive, salto), otro |-> st.otro]

(***************************************************************************)
(* rss_reader.py: RSSReader                                                *)
(***************************************************************************)
\* the date strings an entry may carry: of today and of yesterday in the
\* forms feeds use, a time without a date, and one that dateutil cannot parse
FechaHoy == <<"2", "0", "2", "5", "-", "0", "3", "-", "0", "1">>
FechaAyer == <<"2", "0", "2", "5", "-", "0", "2", "-", "2", "8">>
FechaIlegible == <<"p", "r", "o", "n", "t", "o">>
FechaRFC == <<"S", "a", "t", ",", " ", "0", "1", " ", "M", "a", "r", " ", "2", "0", "2", "5", " ", "1", "0", ":", "0", "0", ":", "0", "0", " ", "G", "M", "T">>
FechaISO == <<"2", "0", "2", "5", "-", "0", "3", "-", "0", "1", "T", "0", "8", ":", "0", "0", ":", "0", "0", "Z">>
FechaAyerRFC == <<"F", "r", "i", ",", " ", "2", "8", " ", "F", "e", "b", " ", "2", "0", "2", "5", " ", "2", "3", ":", "5", "9", ":", "0", "0", " ", "-", "0", "3", "0", "0">>
SoloHora == <<"1", "0", ":", "0", "0">>

\* the date strings of the catalogues, and parser.parse of each, computed once
FECHAS_CAT == {FechaHoy, FechaAyer, FechaIlegible, FechaRFC, FechaISO, FechaAyerRFC, SoloHora}
PARSEADAS == [s \in FECHAS_CAT |-> parser_parse(s)]

\* line 31: parser.parse(published_date_str)
fecha_leida_def(timestr) ==
    IF timestr \in FECHAS_CAT THEN PARSEADAS[timestr] ELSE parser_parse(timestr)

dateutil(f, a) ==
    CASE f = "isword" -> isword_def(a[1])
      [] f = "LeerToken" -> LeerToken_def(a[1], a[2], a[3], a[4], a[5])
      [] f = "get_token" -> get_token_def(a[1], a[2])
      [] f = "TokensDesde" -> TokensDesde_def(a[1], a[2])
      [] f = "timelex_split" -> timelex_split_def(a[1])
      [] f = "Entrada_de" -> Entrada_de_def(a[1], a[2])
      [] f = "info_jump" -> info_jump_def(a[1])
      [] f = "info_weekday" -> info_weekday_def(a[1])
      [] f = "info_month" -> info_month_def(a[1])
      [] f = "info_hms" -> info_hms_def(a[1])
      [] f = "info_ampm" -> info_ampm_def(a[1])
      [] f = "info_pertain" -> info_pertain_def(a[1])
      [] f = "info_utczone" -> info_utczone_def(a[1])
      [] f = "info_tzoffset" -> info_tzoffset_def(a[1])
      [] f = "EsNumero" -> EsNumero_def(a[1])
      [] f = "ConFloat" -> ConFloat_def(a[1])
      [] f = "Decimal" -> Decimal_def(a[1])
      [] f = "YmdPoner" -> YmdPoner_def(a[1], a[2], a[3])
      [] f = "ymd_append_str" -> ymd_append_str_def(a[1], a[2], a[3])
      [] f = "ymd_append" -> ymd_append_def(a[1], a[2], a[3])
      [] f = "could_be_day" -> could_be_day_def(a[1], a[2])
      [] f = "resolve_from_stridxs" -> resolve_from_stridxs_def(a[1])
      [] f = "resolve_ymd" -> resolve_ymd_def(a[1])
      [] f = "parsems" -> parsems_def(a[1])
      [] f = "PonerSegundos" -> PonerSegundos_def(a[1], a[2])
      [] f = "PonerMinSec" -> PonerMinSec_def(a[1], a[2])
      [] f = "find_hms_idx" -> find_hms_idx_def(a[1], a[2], a[3])
      [] f = "assign_hms" -> assign_hms_def(a[1], a[2], a[3])
      [] f = "parse_numeric_token" -> parse_numeric_token_def(a[1], a[2])
      [] f = "RamaMes" -> RamaMes_def(a[1], a[2])
      [] f = "RamaAmPm" -> RamaAmPm_def(a[1], a[2])
      [] f = "RamaTzname" -> RamaTzname_def(a[1], a[2])
      [] f = "RamaSigno" -> RamaSigno_def(a[1], a[2])
      [] f = "ParsePaso" -> ParsePaso_def(a[1], a[2])
      [] f = "ParseDesde" -> ParseDesde_def(a[1], a[2])
      [] f = "parser_parse" -> parser_parse_def(a[1])
      [] f = "fecha_leida" -> fecha_leida_def(a[1])

\* RSSReader._is_recent_entry.  lanza: dateutil raises on a string with a
\* number the model does not compute with
is_recent_entry(published, lanza) ==
    IF ~published.some \/ published.v = <<>> THEN FALSE
    ELSE LET Hoy(r) == IF r.raised \/ (r.otro /\ lanza) THEN FALSE
                       ELSE /\ r.fecha.year = HOY.year
                            /\ r.fecha.month = HOY.month
                            /\ r.fecha.day = HOY.day
         IN  Hoy(fecha_leida(published.v))

\* RSSReader.__init__ and add_feed: self.feeds, a dict from name to url
RSSReaderFeeds == [n \in {} |-> ""]
add_feed(feeds_, name, url) ==
    [n \in (DOMAIN feeds_) \cup {name} |-> IF n = name THEN url ELSE feeds_[n]]

\* lines 65-69 looking at updated first
Publicado_updated_primero(entry) ==
    IF entry.updated.some THEN entry.updated
    ELSE IF entry.published.some THEN entry.published
    ELSE None

\* lines 65-69: published, else updated, else None
Publicado(entry) ==
    IF entry.published.some THEN entry.published
    ELSE IF entry.updated.some THEN entry.updated
    ELSE None

SinTitulo == <<"S", "i", "n", " ", "t", "í", "t", "u", "l", "o">>

\* get_feed_entries, lines 63-90: the recent entries up to the limit
RECURSIVE EntradasRecientes(_, _, _, _, _, _)
EntradasRecientes(feed_entries, lanza, feed_name, limit, k, entries) ==
    IF k > Len(feed_entries) THEN entries
    ELSE IF ~is_recent_entry(Publicado(feed_entries[k]), k \in lanza)
         THEN EntradasRecientes(feed_entries, lanza, feed_name, limit, k + 1, entries)
         ELSE LET entry_data == [title |-> IF feed_entries[k].title.some
                                           THEN feed_entries[k].title.v
                                           ELSE SinTitulo,
                                 link |-> feed_entries[k].link,
                                 published |-> Publicado(feed_entries[k]),
                                 summary |-> feed_entries[k].summary,
                                 feed_name |-> feed_name,
                                 palabra_encontrada |-> None]
                  nuevas == Append(entries, entry_data)
              IN  IF Len(nuevas) >= limit THEN nuevas
                  ELSE EntradasRecientes(feed_entries, lanza, feed_name, limit, k + 1,
                                         nuevas)

\* the entries with a date string that holds a number the model does not
\* compute with
Dudosas(feed_entries) ==
    {k \in 1..Len(feed_entries) :
        /\ Publicado(feed_entries[k]).some
        /\ Publicado(feed_entries[k]).v # <<>>
        /\ fecha_leida(Publicado(feed_entries[k]).v).otro}

\* what the libraries may do on a call that is served the entries: the
\* entries on whose date dateutil raises are any of the Dudosas
Servidas(feed_entries) ==
    {[falla |-> FALSE, entries |-> feed_entries, lanza |-> z] :
        z \in SUBSET Dudosas(feed_entries)}

\* RSSReader.get_feed_entries.  origen is what the libraries do on this
\* call: feedparser.parse raises (falla), or it returns a feed with the
\* entries given
get_feed_entries(feeds_, feed_name, limit, origen) ==
    IF feed_name \notin DOMAIN feeds_ THEN [raised |-> TRUE, entries |-> <<>>]
    ELSE IF origen.falla THEN [raised |-> FALSE, entries |-> <<>>]
    ELSE IF Len(origen.entries) = 0 THEN [raised |-> FALSE, entries |-> <<>>]
    ELSE [raised |-> FALSE,
          entries |-> EntradasRecientes(origen.entries, origen.lanza, feed_name, limit, 1,
                                        <<>>)]

(***************************************************************************)
(* example.py: main, the feed stage (thread pool) and the classification   *)
(***************************************************************************)
max_retries == 3
max_workers == 3
limit_feed == 50
PausaSegundos == 2

\* main's feeds, in dict order (the first four of the source)
FEEDS ==
    <<[name |-> "infobae", url |-> "https://www.infobae.com/feeds/rss/"],
      [name |-> "clarin", url |-> "https://www.clarin.com/rss/lo-ultimo/"],
      [name |-> "lanacion_principal",
       url |-> "https://www.lanacion.com.ar/arc/outboundfeeds/rss/?outputType=xml"],
      [name |-> "lanacion_politica",
       url |-> "https://www.lanacion.com.ar/arc/outboundfeeds/rss/categoria/politica/?outputType=xml"]>>
NOMBRES == {FEEDS[k].name : k \in 1..Len(FEEDS)}
PosFeed(name) == CHOOSE k \in 1..Len(FEEDS) : FEEDS[k].name = name

\* an entry as feedparser gives it
Entrada(title, published, updated) ==
    [title |-> title, link |-> Some(<<"h", "t", "t", "p", ":", "/", "/", "x">>), published |-> published,
     updated |-> updated, summary |-> None]

\* the entries each source serves when it answers with entries
ENTRADAS_DE(name) ==
    IF name = "infobae"
    THEN <<Entrada(Some(<<"H", "o", "s", "p", "i", "t", "a", "l", " ", "s", "i", "n", " ",
                          "N", "A", "F", "T", "A">>),
                   Some(FechaHoy), None)>>
    ELSE IF name = "clarin"
    THEN <<Entrada(Some(<<"S", "a", "l", "u", "d", ":", " ", "n", "u", "e", "v", "o", " ",
                          "h", "o", "s", "p", "i", "t", "a", "l">>),
                   Some(FechaRFC), None),
           Entrada(Some(<<"D", "e", "p", "o", "r", "t", "e", "s">>),
                   Some(FechaAyerRFC), None)>>
    ELSE IF name = "lanacion_principal"
    THEN <<Entrada(None, Some(FechaIlegible), Some(FechaHoy)),
           Entrada(Some(<<"D", "e", "p", "o", "r", "t", "e", "s">>),
                   None, Some(FechaISO))>>
    ELSE <<Entrada(Some(<<"S", "u", "b", "e", " ", "l", "a", " ", "N", "A", "F", "T", "A">>),
                   None, None)>>

\* what feedparser.parse may do on one call: raise, an empty feed, entries
ORIGENES(name) ==
    {[falla |-> TRUE, entries |-> <<>>, lanza |-> {}]}
       \cup UNION {Servidas(es) : es \in {<<>>, ENTRADAS_DE(name)}}

\* cargar_noticias_sheets: the rows of today, or [] when the sheet fails
NoticiaSheet(title) ==
    [title |-> title, link |-> Some(<<>>),
     published |-> Some(<<"0", "1", "/", "0", "3", "/", "2", "0", "2", "5">>),
     summary |-> None, feed_name |-> "whatsapp_group", palabra_encontrada |-> None]
SHEET_NEWS ==
    {<<>>,
     <<NoticiaSheet(<<"H", "o", "s", "p", "i", "t", "a", "l", " ", "s", "i", "n", " ",
                      "N", "A", "F", "T", "A">>)>>}

\* the stores main goes on with (it returns at once when one is empty)
TEMAS_NEWS ==
    {sq \in ALMACENES_TEMAS : Len(sq) = 2 /\ sq[1].tema # Vacio}
CUENTAS_NEWS ==
    <<[nombre |-> <<"Y", "P", "F">>, temas |-> <<Energia>>],
      [nombre |-> <<"Y", "P", "F", " ", "L", "u", "z">>, temas |-> <<Salud, Fantasma>>]>>

NewsInit ==
    /\ pc = "feeds"
    /\ temas \in TEMAS_NEWS
    /\ cuentas = CUENTAS_NEWS
    /\ all_news \in SHEET_NEWS
    /\ feed_pc = [n \in NOMBRES |-> "en_cola"]
    /\ retry_count = [n \in NOMBRES |-> 0]
    /\ intentos = [n \in NOMBRES |-> <<>>]
    /\ espera = [n \in NOMBRES |-> 0]
    /\ resultado = [n \in NOMBRES |-> None]
    /\ n_noticia = 0
    /\ noticias_por_tema = <<>>
    /\ total_noticias_clasificadas = 0
    /\ filas = <<>> /\ reportes = <<>>
    /\ SegIdle /\ ExtIdle /\ RssIdle /\ LocIdle /\ SumIdle /\ SinkIdle /\ CargaIdle /\ GuiIdle

\* the positions of main during which the threads of the pool run: the
\* submissions of line 541, the collection loop of lines 543-551, and the
\* finally clause of lines 552-554 entered with an exception in flight
EtapaFeeds == {"enviar", "feeds", "feeds_finally"}

Corriendo == {n \in NOMBRES : feed_pc[n] = "corriendo"}

\* a pool that starts a thread for every call submitted
IniciarFeed_sin_limite(name) ==
    /\ pc \in EtapaFeeds
    /\ feed_pc[name] = "en_cola"
    /\ feed_pc' = [feed_pc EXCEPT ![name] = "corriendo"]
    /\ UNCHANGED <<pc, retry_count, intentos, espera, resultado, all_news, n_noticia,
                   noticias_por_tema, total_noticias_clasificadas,
                   segVars, extVars, clasVars, rssVars, locVars, sumVars, sinkVars, cargaVars,
                   guiVars>>

\* a free worker of the pool takes the next call of the queue
IniciarFeed(name) ==
    /\ pc \in EtapaFeeds
    /\ feed_pc[name] = "en_cola"
    /\ \A k \in 1..(PosFeed(name) - 1) : feed_pc[FEEDS[k].name] # "en_cola"
    /\ Cardinality(Corriendo) < max_workers
    /\ feed_pc' = [feed_pc EXCEPT ![name] = "corriendo"]
    /\ UNCHANGED <<pc, retry_count, intentos, espera, resultado, all_news, n_noticia,
                   noticias_por_tema, total_noticias_clasificadas,
                   segVars, extVars, clasVars, rssVars, locVars, sumVars, sinkVars, cargaVars,
                   guiVars>>

\* procesar_feed appending its entries to main's all_news before returning
Intento_escribe(name) ==
    /\ pc \in EtapaFeeds
    /\ feed_pc[name] = "corriendo"
    /\ retry_count[name] < max_retries
    /\ \E origen \in ORIGENES(name) :
          LET rss_feeds == add_feed(RSSReaderFeeds, name, FEEDS[PosFeed(name)].url)
              Con(r) ==
                  /\ intentos' = [intentos EXCEPT ![name] = Append(@, origen)]
                  /\ resultado' = [resultado EXCEPT ![name] =
                                      Some([name |-> name, entries |-> r.entries])]
                  /\ all_news' = all_news \o r.entries
        /\ feed_pc' = [feed_pc EXCEPT ![name] = "terminado"]
          IN  Con(get_feed_entries(rss_feeds, name, limit_feed, origen))
    /\ UNCHANGED <<pc, retry_count, espera, n_noticia, noticias_por_tema,
                   total_noticias_clasificadas, segVars, extVars, clasVars, rssVars, locVars,
                   sumVars, sinkVars, cargaVars, guiVars>>

\* procesar_feed letting a failure of the source out to its caller
Intento_propaga(name) ==
    /\ pc \in EtapaFeeds
    /\ feed_pc[name] = "corriendo"
    /\ retry_count[name] < max_retries
    /\ \E origen \in ORIGENES(name) :
          LET rss_feeds == add_feed(RSSReaderFeeds, name, FEEDS[PosFeed(name)].url)
              Con(r) ==
                  /\ intentos' = [intentos EXCEPT ![name] = Append(@, origen)]
                  /\ IF origen.falla
                     THEN /\ feed_pc' = [feed_pc EXCEPT ![name] = "excepcion"]
                          /\ UNCHANGED resultado
                     ELSE /\ resultado' = [resultado EXCEPT ![name] =
                                              Some([name |-> name, entries |-> r.entries])]
                          /\ feed_pc' = [feed_pc EXCEPT ![name] = "terminado"]
          IN  Con(get_feed_entries(rss_feeds, name, limit_feed, origen))
    /\ UNCHANGED <<pc, retry_count, espera, all_news, n_noticia, noticias_por_tema,
                   total_noticias_clasificadas, segVars, extVars, clasVars, rssVars, locVars,
                   sumVars, sinkVars, cargaVars, guiVars>>

\* procesar_feed: one turn of the while loop
Intento(name) ==
    /\ pc \in EtapaFeeds
    /\ feed_pc[name] = "corriendo"
    /\ retry_count[name] < max_retries
    /\ \E origen \in ORIGENES(name) :
          LET rss_feeds == add_feed(RSSReaderFeeds, name, FEEDS[PosFeed(name)].url)
              Con(r) ==
                  /\ intentos' = [intentos EXCEPT ![name] = Append(@, origen)]
                  /\ IF ~r.raised
                     THEN \* lines 158-163: return name, entries / return name, []
                          /\ resultado' = [resultado EXCEPT ![name] =
                                              Some([name |-> name, entries |-> r.entries])]
                          /\ feed_pc' = [feed_pc EXCEPT ![name] = "terminado"]
                          /\ UNCHANGED <<retry_count, espera>>
                     ELSE \* lines 164-171: the except clause
                          /\ retry_count' = [retry_count EXCEPT ![name] = @ + 1]
                          /\ IF retry_count[name] + 1 < max_retries
                             THEN /\ espera' = [espera EXCEPT ![name] = @ + PausaSegundos]
                                  /\ UNCHANGED <<resultado, feed_pc>>
                             ELSE /\ resultado' = [resultado EXCEPT ![name] =
                                                      Some([name |-> name, entries |-> <<>>])]
                                  /\ feed_pc' = [feed_pc EXCEPT ![name] = "terminado"]
                                  /\ UNCHANGED espera
          IN  Con(get_feed_entries(rss_feeds, name, limit_feed, origen))
    /\ UNCHANGED <<pc, all_news, n_noticia, noticias_por_tema,
                   total_noticias_clasificadas, segVars, extVars, clasVars, rssVars, locVars,
                   sumVars, sinkVars, cargaVars, guiVars>>

\* lines 547-549: entry['feed_name'] = name for each entry of the result
ConFeedName(entries, name) ==
    [k \in 1..Len(entries) |-> [entries[k] EXCEPT !.feed_name = name]]

\* lines 543-551 keeping only the entries of the future handed over
Recoger_reemplaza(name) ==
    /\ pc = "feeds"
    /\ feed_pc[name] = "terminado"
    /\ resultado[name].some
    /\ feed_pc' = [feed_pc EXCEPT ![name] = "recogido"]
    /\ all_news' = IF Len(resultado[name].v.entries) = 0 THEN all_news
                   ELSE ConFeedName(resultado[name].v.entries, resultado[name].v.name)
    /\ UNCHANGED <<pc, retry_count, intentos, espera, resultado, n_noticia,
                   noticias_por_tema, total_noticias_clasificadas,
                   segVars, extVars, clasVars, rssVars, locVars, sumVars, sinkVars, cargaVars,
                   guiVars>>

\* main, lines 543-549: as_completed hands over a finished future and
\* future.result() returns the pair
Recoger(name) ==
    /\ pc = "feeds"
    /\ feed_pc[name] = "terminado"
    /\ resultado[name].some
    /\ feed_pc' = [feed_pc EXCEPT ![name] = "recogido"]
    /\ all_news' = all_news \o ConFeedName(resultado[name].v.entries, resultado[name].v.name)
    /\ UNCHANGED <<pc, retry_count, intentos, espera, resultado, n_noticia,
                   noticias_por_tema, total_noticias_clasificadas,
                   segVars, extVars, clasVars, rssVars, locVars, sumVars, sinkVars, cargaVars,
                   guiVars>>

\* main, lines 552-563: executor.shutdown(wait=True) and the empty groups
CerrarPool ==
    /\ pc = "feeds"
    /\ \A n \in NOMBRES : feed_pc[n] = "recogido"
    /\ pc' = "clasificar"
    /\ n_noticia' = 1
    /\ noticias_por_tema' = <<>>
    /\ total_noticias_clasificadas' = 0
    /\ UNCHANGED <<feedVars, all_news, segVars, extVars, clasVars, rssVars, locVars, sumVars,
                   sinkVars, cargaVars, guiVars>>

\* lines 568-571 for the matches from the k-th on: the reference to the item
\* is appended to the list of each topic (defaultdict: a new key goes last)
RECURSIVE AgruparDesde(_, _, _, _)
AgruparDesde(grupos, ms, k, ref) ==
    IF k > Len(ms) THEN grupos
    ELSE LET tema == ms[k].tema
             conAlta == IF \E g \in 1..Len(grupos) : grupos[g].tema = tema
                        THEN grupos
                        ELSE Append(grupos, [tema |-> tema, noticias |-> <<>>])
             nuevos == [g \in 1..Len(conAlta) |->
                          IF conAlta[g].tema = tema
                          THEN [conAlta[g] EXCEPT !.noticias = Append(@, ref)]
                          ELSE conAlta[g]]
         IN  AgruparDesde(nuevos, ms, k + 1, ref)

\* line 569 over the whole inner loop: the key is assigned once per match,
\* so the item keeps the keyword of the last one
Anotar(noticia, ms) ==
    IF Len(ms) = 0 THEN noticia
    ELSE [noticia EXCEPT !.palabra_encontrada = Some(ms[Len(ms)].palabra_encontrada)]

\* main, lines 565-571: one turn of the loop over all_news
ClasificarNoticia ==
    /\ pc = "clasificar"
    /\ n_noticia <= Len(all_news)
    /\ LET noticia == all_news[n_noticia]
           temas_noticia == clasificar_noticia(noticia, temas)
       IN  /\ all_news' = [all_news EXCEPT ![n_noticia] = Anotar(noticia, temas_noticia)]
           /\ noticias_por_tema' = AgruparDesde(noticias_por_tema, temas_noticia, 1, n_noticia)
           /\ total_noticias_clasificadas' = total_noticias_clasificadas + Len(temas_noticia)
    /\ n_noticia' = n_noticia + 1
    /\ UNCHANGED <<pc, feedVars, segVars, extVars, clasVars, rssVars, locVars, sumVars, sinkVars,
                   cargaVars, guiVars>>

\* main, line 573: the loop is over
FinClasificacion ==
    /\ pc = "clasificar"
    /\ n_noticia > Len(all_news)
    /\ pc' = "news_fin"
    /\ UNCHANGED <<newsVars, segVars, extVars, clasVars, rssVars, locVars, sumVars, sinkVars,
                   cargaVars, guiVars>>

NewsNext ==
    \/ \E name \in NOMBRES : IniciarFeed(name)
    \/ \E name \in NOMBRES : Intento(name)
    \/ \E name \in NOMBRES : Recoger(name)
    \/ CerrarPool
    \/ ClasificarNoticia
    \/ FinClasificacion

SpecNews == NewsInit /\ [][NewsNext]_vars

(***************************************************************************)
(* C9, C10: claims on the news pipeline                                    *)
(***************************************************************************)
\* the titles of the items are never touched, so the matches of an item can
\* be recomputed from the item as it stands
MatchesDe(ref) == clasificar_noticia(all_news[ref], temas)

\* C9: after the classification loop, every item listed under a topic T
\* carries as palabra_encontrada the keyword that clasificar_noticia recorded
\* for T on that item, also when the item matched several topics.
C9_PalabraDelTema ==
    pc = "news_fin" =>
        \A g \in 1..Len(noticias_por_tema) :
            \A k \in 1..Len(noticias_por_tema[g].noticias) :
                LET ref == noticias_por_tema[g].noticias[k]
                IN  \E m \in 1..Len(MatchesDe(ref)) :
                       /\ MatchesDe(ref)[m].tema = noticias_por_tema[g].tema
                       /\ all_news[ref].palabra_encontrada
                             = Some(MatchesDe(ref)[m].palabra_encontrada)

Terminado(name) == feed_pc[name] \in {"terminado", "recogido"}

\* C10: a failed attempt is followed by another one after a pause of 2
\* seconds, until an attempt succeeds or 3 attempts have been made; a feed
\* whose first attempt fails and whose second succeeds contributes the
\* entries of the second attempt.
C10_Reintento ==
    \A name \in NOMBRES :
        Terminado(name) =>
            LET h == intentos[name]
            IN  /\ h[Len(h)].falla => Len(h) = max_retries
                /\ \A a \in 1..(Len(h) - 1) : h[a].falla
                /\ espera[name] = PausaSegundos * (Len(h) - 1)
                /\ (Len(h) >= 2 /\ ~h[2].falla)
                      => resultado[name].v.entries
                            = get_feed_entries(add_feed(RSSReaderFeeds, name, ""), name,
                                               limit_feed, h[2]).entries

(***************************************************************************)
(* the feed stage with its threads scheduled fairly                        *)
(***************************************************************************)
\* the steps of the feed stage
PoolNext ==
    \/ \E name \in NOMBRES : IniciarFeed(name)
    \/ \E name \in NOMBRES : Intento(name)
    \/ \E name \in NOMBRES : Recoger(name)
    \/ CerrarPool

\* the threads of the pool and the collecting thread keep running
SpecNewsJusto == NewsInit /\ [][NewsNext]_vars /\ WF_vars(PoolNext)

\* the fetch of the feed failed: its last attempt found the source down
FalloFeed(name) ==
    Len(intentos[name]) > 0 /\ intentos[name][Len(intentos[name])].falla

SinAnotar(noticias) ==
    [k \in 1..Len(noticias) |-> [noticias[k] EXCEPT !.palabra_encontrada = None]]

\* the items of all_news that came from the feed, in order, as collected
NoticiasDe(name) == SinAnotar(SelectSeq(all_news, LAMBDA n : n.feed_name = name))

RECURSIVE SumaLen(_)
SumaLen(conj) ==
    IF conj = {} THEN 0
    ELSE LET n == CHOOSE x \in conj : TRUE
         IN  Len(NoticiasDe(n)) + SumaLen(conj \ {n})

(***************************************************************************)
(* C23: procesar_feed always returns                                       *)
(***************************************************************************)
\* what get_feed_entries returned on an attempt of the feed
EntradasDelIntento(name, origen) ==
    get_feed_entries(add_feed(RSSReaderFeeds, name, FEEDS[PosFeed(name)].url),
                     name, limit_feed, origen).entries

\* the positions a call of procesar_feed goes through: waiting for a worker,
\* running, returned, result collected by main
PosicionesDeFeed == {"en_cola", "corriendo", "terminado", "recogido"}

RetornoDeFeed ==
    \A name \in NOMBRES :
        /\ feed_pc[name] \in PosicionesDeFeed
        /\ Len(intentos[name]) <= max_retries
        /\ Terminado(name) =>
              /\ resultado[name].some
              /\ resultado[name].v.name = name
              /\ (\A a \in 1..Len(intentos[name]) :
                     EntradasDelIntento(name, intentos[name][a]) = <<>>)
                    => resultado[name].v.entries = <<>>
              /\ resultado[name].v.entries
                    = EntradasDelIntento(name, intentos[name][Len(intentos[name])])

\* C23: whatever the feed source does on each attempt (entries, an empty
\* feed, a failure), a running call of procesar_feed ends, it ends by
\* returning and never by an exception, it makes at most 3 attempts, and it
\* returns the pair (feed name, entries), the entries being empty when no
\* attempt produced any.
C23_SiempreRetorna ==
    /\ []RetornoDeFeed
    /\ \A name \in NOMBRES : (feed_pc[name] = "corriendo") ~> Terminado(name)

\* the three outcomes side by side: infobae's source failed, clarin's served
\* an entry of today, lanacion_politica's served an entry without a date;
\* the three calls have returned
C23_Witness ==
    /\ pc = "feeds"
    /\ feed_pc["infobae"] = "terminado"
    /\ intentos["infobae"] = <<[falla |-> TRUE, entries |-> <<>>, lanza |-> {}]>>
    /\ resultado["infobae"] = Some([name |-> "infobae", entries |-> <<>>])
    /\ feed_pc["clarin"] = "terminado"
    /\ Len(resultado["clarin"].v.entries) = 1
    /\ feed_pc["lanacion_politica"] = "terminado"
    /\ intentos["lanacion_politica"]
          = <<[falla |-> FALSE, entries |-> ENTRADAS_DE("lanacion_politica"),
               lanza |-> {}]>>
    /\ resultado["lanacion_politica"].v.entries = <<>>

(***************************************************************************)
(* main, lines 539-554: the pool, whatever the submitted calls end in      *)
(***************************************************************************)
\* the future of a call that ended in an exception of class clase
Lanzada(clase) == [some |-> FALSE, v |-> clase]

\* the classes a call may end in: one that the except clause of line 550
\* catches and one that it does not
CLASES == {"Exception", "BaseException"}

PoolInit ==
    /\ pc = "enviar"
    /\ temas = CHOOSE t \in TEMAS_NEWS : TRUE
    /\ cuentas = CUENTAS_NEWS
    /\ all_news \in SHEET_NEWS
    /\ feed_pc = [n \in NOMBRES |-> "sin_enviar"]
    /\ retry_count = [n \in NOMBRES |-> 0]
    /\ intentos = [n \in NOMBRES |-> <<>>]
    /\ espera = [n \in NOMBRES |-> 0]
    /\ resultado = [n \in NOMBRES |-> None]
    /\ n_noticia = 0
    /\ noticias_por_tema = <<>>
    /\ total_noticias_clasificadas = 0
    /\ filas = <<>> /\ reportes = <<>>
    /\ SegIdle /\ ExtIdle /\ RssIdle /\ LocIdle /\ SumIdle /\ SinkIdle /\ CargaIdle /\ GuiIdle

\* line 541: executor.submit for the next item of feeds.items(); after the
\* last one main enters the loop over as_completed
EnviarFeed(name) ==
    /\ pc = "enviar"
    /\ feed_pc[name] = "sin_enviar"
    /\ \A k \in 1..(PosFeed(name) - 1) : feed_pc[FEEDS[k].name] # "sin_enviar"
    /\ feed_pc' = [feed_pc EXCEPT ![name] = "en_cola"]
    /\ pc' = IF PosFeed(name) = Len(FEEDS) THEN "feeds" ELSE "enviar"
    /\ UNCHANGED <<retry_count, intentos, espera, resultado, all_news, n_noticia,
                   noticias_por_tema, total_noticias_clasificadas,
                   segVars, extVars, clasVars, rssVars, locVars, sumVars, sinkVars, cargaVars,
                   guiVars>>

\* the submitted call ends in an exception, which the executor stores in the
\* future
FallarEnWorker(name) ==
    /\ pc \in EtapaFeeds
    /\ feed_pc[name] = "corriendo"
    /\ \E clase \in CLASES :
          resultado' = [resultado EXCEPT ![name] = Lanzada(clase)]
    /\ feed_pc' = [feed_pc EXCEPT ![name] = "terminado"]
    /\ UNCHANGED <<pc, retry_count, intentos, espera, all_news, n_noticia,
                   noticias_por_tema, total_noticias_clasificadas,
                   segVars, extVars, clasVars, rssVars, locVars, sumVars, sinkVars, cargaVars,
                   guiVars>>

\* line 550 letting the Exception of a call out of the loop
RecogerExcepcion_sale(name) ==
    /\ pc = "feeds"
    /\ feed_pc[name] = "terminado"
    /\ resultado[name] = Lanzada("Exception")
    /\ feed_pc' = [feed_pc EXCEPT ![name] = "recogido"]
    /\ pc' = "feeds_finally"
    /\ UNCHANGED <<retry_count, intentos, espera, resultado, all_news, n_noticia,
                   noticias_por_tema, total_noticias_clasificadas,
                   segVars, extVars, clasVars, rssVars, locVars, sumVars, sinkVars, cargaVars,
                   guiVars>>

\* lines 545, 550-551: future.result() raises an Exception; it is reported
\* and the loop goes on
RecogerExcepcion(name) ==
    /\ pc = "feeds"
    /\ feed_pc[name] = "terminado"
    /\ resultado[name] = Lanzada("Exception")
    /\ feed_pc' = [feed_pc EXCEPT ![name] = "recogido"]
    /\ UNCHANGED <<pc, retry_count, intentos, espera, resultado, all_news, n_noticia,
                   noticias_por_tema, total_noticias_clasificadas,
                   segVars, extVars, clasVars, rssVars, locVars, sumVars, sinkVars, cargaVars,
                   guiVars>>

\* line 545: future.result() raises what line 550 does not catch; the loop
\* is left for the finally clause
SalirDelBucle(name) ==
    /\ pc = "feeds"
    /\ feed_pc[name] = "terminado"
    /\ resultado[name] = Lanzada("BaseException")
    /\ feed_pc' = [feed_pc EXCEPT ![name] = "recogido"]
    /\ pc' = "feeds_finally"
    /\ UNCHANGED <<retry_count, intentos, espera, resultado, all_news, n_noticia,
                   noticias_por_tema, total_noticias_clasificadas,
                   segVars, extVars, clasVars, rssVars, locVars, sumVars, sinkVars, cargaVars,
                   guiVars>>

\* lines 552-554 with the exception in flight: executor.shutdown(wait=True)
\* returns when every call submitted has ended; main then ends in the
\* exception
CerrarPoolTrasExcepcion ==
    /\ pc = "feeds_finally"
    /\ \A n \in NOMBRES : feed_pc[n] \in {"terminado", "recogido"}
    /\ pc' = "main_excepcion"
    /\ UNCHANGED <<newsVars, segVars, extVars, clasVars, rssVars, locVars, sumVars, sinkVars,
                   cargaVars, guiVars>>

MainPoolNext ==
    \/ \E name \in NOMBRES : EnviarFeed(name)
    \/ \E name \in NOMBRES : IniciarFeed(name)
    \/ \E name \in NOMBRES : Intento(name)
    \/ \E name \in NOMBRES : FallarEnWorker(name)
    \/ \E name \in NOMBRES : Recoger(name)
    \/ \E name \in NOMBRES : RecogerExcepcion(name)
    \/ \E name \in NOMBRES : SalirDelBucle(name)
    \/ CerrarPool
    \/ CerrarPoolTrasExcepcion

\* main and the threads of the pool keep running
SpecPool == PoolInit /\ [][MainPoolNext]_vars /\ WF_vars(MainPoolNext)

(***************************************************************************)
(* C11: the feed batch tolerates partial failure                           *)
(***************************************************************************)
\* the call of the feed ended in an exception of the class
LanzoFeed(name, clase) == resultado[name] = Lanzada(clase)

\* the feed failed: its source was down, or its call raised
FeedFallido(name) == FalloFeed(name) \/ \E clase \in CLASES : LanzoFeed(name, clase)

\* once the pool is closed all_news holds, besides the items of the
\* spreadsheet, every entry returned by each feed that did not fail and
\* nothing of the feeds that failed
ColectaTolerante ==
    pc = "clasificar" =>
        /\ \A name \in NOMBRES :
              NoticiasDe(name) = IF FeedFallido(name) THEN <<>>
                                 ELSE ConFeedName(resultado[name].v.entries, name)
        /\ Len(all_news) = SumaLen(NOMBRES \cup {"whatsapp_group"})

PoolCerrado == pc \in {"clasificar", "main_excepcion"}

\* the order of the positions of a submitted call
RangoDeFeed(p) ==
    CASE p = "sin_enviar" -> 0 [] p = "en_cola" -> 1 [] p = "corriendo" -> 2
      [] p = "terminado" -> 3 [] p = "recogido" -> 4

\* C24: at every moment at most 3 calls of procesar_feed are running; every
\* configured feed is submitted, and runs, exactly once (a call only moves
\* forward: submitted, started, ended, collected); and on every path out of
\* the collection loop, the one where collecting a result raises included,
\* the pool is shut down, which happens only when every call has ended.
C24_PoolAcotado ==
    /\ [](Cardinality(Corriendo) <= max_workers)
    /\ [][\A n \in NOMBRES :
             /\ RangoDeFeed(feed_pc'[n]) >= RangoDeFeed(feed_pc[n])
             /\ RangoDeFeed(feed_pc'[n]) <= RangoDeFeed(feed_pc[n]) + 1]_vars
    /\ [](PoolCerrado =>
             \A n \in NOMBRES : feed_pc[n] \in {"terminado", "recogido"})
    /\ [](pc # "enviar" => \A n \in NOMBRES : feed_pc[n] # "sin_enviar")
    /\ <>PoolCerrado

\* collecting infobae's result raised and the loop was left with clarin's
\* call still to end: the pool was shut down after it ended, its result
\* never collected
C24_Witness ==
    /\ pc = "main_excepcion"
    /\ resultado["infobae"] = Lanzada("BaseException")
    /\ feed_pc["infobae"] = "recogido"
    /\ feed_pc["clarin"] = "terminado"
    /\ resultado["clarin"].some
    /\ resultado["lanacion_principal"] = Lanzada("Exception")
    /\ feed_pc["lanacion_principal"] = "recogido"

(***************************************************************************)
(* C25: only the collecting thread writes all_news                         *)
(***************************************************************************)
\* the entries main appends for the feed: those of the pair its call
\* returned, none when the call raised
AportadasDe(name) ==
    IF resultado[name].some
    THEN ConFeedName(resultado[name].v.entries, resultado[name].v.name)
    ELSE <<>>

RECURSIVE SumaAportadas(_)
SumaAportadas(conj) ==
    IF conj = {} THEN 0
    ELSE LET n == CHOOSE x \in conj : TRUE
         IN  Len(AportadasDe(n)) + SumaAportadas(conj \ {n})

\* all_news is the items of the spreadsheet followed by the entries of the
\* feeds, those of each feed once and in the order of its result
HojaYFeeds ==
    \E hoja \in SHEET_NEWS :
       /\ Len(all_news) = Len(hoja) + SumaAportadas(NOMBRES)
       /\ SubSeq(all_news, 1, Len(hoja)) = hoja
       /\ \A k \in (Len(hoja) + 1)..Len(all_news) : all_news[k].feed_name \in NOMBRES
       /\ \A name \in NOMBRES :
             SelectSeq(all_news, LAMBDA n : n.feed_name = name) = AportadasDe(name)

\* a step of the collecting thread that takes the pair of a call that has
\* returned and appends its entries
PasoDeColecta ==
    \E name \in NOMBRES :
       /\ pc = "feeds"
       /\ feed_pc[name] = "terminado" /\ feed_pc'[name] = "recogido"
       /\ resultado[name].some
       /\ all_news' = all_news \o AportadasDe(name)

\* C25: all_news is only ever changed by the collecting thread, which
\* appends the entries of a call after the call has returned; whatever the
\* order in which the calls end, once the pool has been joined all_news is
\* the spreadsheet items followed by every entry of every feed result,
\* exactly once each, with the name of its feed as 'feed_name'.
C25_SoloElColector ==
    /\ [][all_news' # all_news => PasoDeColecta]_vars
    /\ [](pc = "clasificar" => HojaYFeeds)

\* the pool is joined: the spreadsheet item comes first, clarin's entry was
\* collected before infobae's, and the call of lanacion_principal raised
C25_Witness ==
    /\ pc = "clasificar"
    /\ Len(all_news) = 3
    /\ all_news[1].feed_name = "whatsapp_group"
    /\ all_news[2].feed_name = "clarin"
    /\ all_news[3].feed_name = "infobae"
    /\ resultado["lanacion_principal"] = Lanzada("Exception")

(***************************************************************************)
(* RSSReader.get_feed_entries on its own                                   *)
(***************************************************************************)
MaxEntradas == 2

\* the entries a feed may serve: with or without title, published, updated
ENTRADAS_CAT ==
    {[title |-> t, link |-> Some(<<"h", "t", "t", "p", ":", "/", "/", "x">>),
      published |-> p, updated |-> u, summary |-> None] :
        t \in {None, Some(<<"D", "e", "p", "o", "r", "t", "e", "s">>)},
        p \in {None, Some(FechaHoy), Some(FechaAyer), Some(FechaIlegible),
                Some(FechaRFC), Some(SoloHora)},
        u \in {None, Some(FechaISO), Some(FechaAyerRFC)}}

LIMITES == {1, limit_feed}

RssInit ==
    /\ pc = "rss"
    /\ \/ feed_in = [falla |-> TRUE, entries |-> <<>>, lanza |-> {}]
       \/ \E es \in SeqsHasta(ENTRADAS_CAT, MaxEntradas) : feed_in \in Servidas(es)
    /\ limit_in \in LIMITES
    /\ entries_out = None
    /\ SegIdle /\ ExtIdle /\ ClasIdle /\ NewsIdle /\ LocIdle /\ SumIdle /\ SinkIdle /\ CargaIdle /\ GuiIdle

\* reader.add_feed(name, url); reader.get_feed_entries(name, limit)
ObtenerEntradas ==
    /\ pc = "rss"
    /\ LET Con(r) ==
               /\ pc' = IF r.raised THEN "rss_error" ELSE "rss_fin"
               /\ entries_out' = Some(r.entries)
       IN  Con(get_feed_entries(add_feed(RSSReaderFeeds, "infobae", FEEDS[1].url),
                                 "infobae", limit_in, feed_in))
    /\ UNCHANGED <<feed_in, limit_in, segVars, extVars, clasVars, newsVars, locVars, sumVars,
                   sinkVars, cargaVars, guiVars>>

RssNext == ObtenerEntradas

SpecRss == RssInit /\ [][RssNext]_vars

(***************************************************************************)
(* C12: the date filter of get_feed_entries                                *)
(***************************************************************************)
\* the date string the filter looks at: published, else updated
FechaVista(entry) ==
    IF entry.published.some THEN entry.published.v
    ELSE IF entry.updated.some THEN entry.updated.v
    ELSE <<>>

\* the string is there, parses, and is a date of the current day
EsDeHoy(entry) ==
    /\ entry.published.some \/ entry.updated.some
    /\ FechaVista(entry) # <<>>
    /\ ~parser_parse(FechaVista(entry)).raised
    /\ parser_parse(FechaVista(entry)).fecha = HOY

\* the positions of the entries of today, in order
DeHoy(es) == SelectSeq([k \in 1..Len(es) |-> k], LAMBDA k : EsDeHoy(es[k]))

\* C12: get_feed_entries never raises on an entry; it returns, in order, the
\* entries whose date (published, else updated) parses to the current day,
\* up to the limit: entries of yesterday, without date or with an unreadable
\* date are dropped and the entries after them are still looked at.
C12_FiltroDeFecha ==
    pc # "rss_error" /\
    (pc = "rss_fin" =>
        LET es == feed_in.entries
            recientes == DeHoy(es)
            sal == entries_out.v
        IN  /\ Len(sal) = Min(Len(recientes), limit_in)
            /\ \A k \in 1..Len(sal) :
                  /\ sal[k].published = Some(FechaVista(es[recientes[k]]))
                  /\ sal[k].title = IF es[recientes[k]].title.some
                                    THEN es[recientes[k]].title.v ELSE SinTitulo
                  /\ sal[k].link = es[recientes[k]].link
                  /\ sal[k].feed_name = "infobae")

\* the first entry has an unreadable published and an updated of today and
\* is dropped; the entry of today after it is kept
C12_Witness ==
    /\ pc = "rss_fin"
    /\ Len(feed_in.entries) = 2
    /\ ~EsDeHoy(feed_in.entries[1])
    /\ feed_in.entries[1].published = Some(FechaIlegible)
    /\ feed_in.entries[1].updated = Some(FechaISO)
    /\ EsDeHoy(feed_in.entries[2])
    /\ Len(entries_out.v) = 1

DIGITOS == <<"0", "1", "2", "3", "4", "5", "6", "7", "8", "9">>

\* the decimal digits of n, padded with zeros to the width
RECURSIVE Cifras(_, _)
Cifras(n, ancho) ==
    IF ancho = 0 THEN <<>>
    ELSE Append(Cifras(n \div 10, ancho - 1), DIGITOS[(n % 10) + 1])

\* fecha.strftime("%Y%m%d")
strftime_Ymd(f) == Cifras(f.year, 4) \o Cifras(f.month, 2) \o Cifras(f.day, 2)

(***************************************************************************)
(* BoletinDownloader: obtener_ultimo_boletin and descargar_boletin         *)
(***************************************************************************)
pdf_url_template ==
    <<"h", "t", "t", "p", "s", ":", "/", "/", "w", "w", "w", ".", "b", "o", "l", "e", "t",
      "i", "n", "o", "f", "i", "c", "i", "a", "l", ".", "g", "o", "b", ".", "a", "r", "/",
      "p", "d", "f", "/", "p", "d", "f", "P", "o", "r", "N", "o", "m", "b", "r", "e", "/">>

\* lines 56-60 and 67-69
pdf_url_de(f) == pdf_url_template \o strftime_Ymd(f)
nombre_archivo_de(f) ==
    <<"b", "o", "l", "e", "t", "i", "n", "_">> \o strftime_Ymd(f) \o <<".", "p", "d", "f">>

\* the days obtener_ultimo_boletin may be run on: a whole week across the
\* end of a month, the days after a 29th of February, the turn of a year
DIAS_HOY ==
    {Fecha(2025, 2, 26), Fecha(2025, 2, 27), Fecha(2025, 2, 28), Fecha(2025, 3, 1),
     Fecha(2025, 3, 2), Fecha(2025, 3, 3), Fecha(2025, 3, 4),
     Fecha(2024, 3, 1), Fecha(2024, 3, 2), Fecha(2024, 3, 3),
     Fecha(2025, 1, 1), Fecha(2022, 1, 1), Fecha(2022, 1, 2), Fecha(2000, 3, 1)}

\* what a request may do: answer with a status code, or raise (no connection)
RESPUESTAS ==
    {[raised |-> FALSE, status_code |-> c] : c \in {200, 403, 404, 500}}
       \cup {[raised |-> TRUE, status_code |-> 0]}

\* lines 131-137 and 252-257: today, stepped back off a weekend
RECURSIVE fecha_por_defecto(_)
fecha_por_defecto(now) ==
    IF weekday(now) > 4 THEN fecha_por_defecto(DiaAnterior(now)) ELSE now

FechaDeLlamada(now, fecha) ==
    IF fecha.some THEN fecha.v ELSE strftime_Ymd(fecha_por_defecto(now))

\* lines 193 and 314
nombre_primera_seccion(fecha) == <<"b", "o", "l", "e", "t", "i", "n", "_", "p", "r", "i", "m", "e", "r", "a", "_", "s", "e", "c", "c", "i", "o", "n", "_">> \o fecha \o <<".", "p", "d", "f">>

\* what temp_boletines holds when a run begins: nothing, or the first
\* section of the day, left by an earlier run
ARCHIVOS_PREVIOS(now) ==
    {{}, {[nombre |-> nombre_primera_seccion(FechaDeLlamada(now, None)), cuerpo |-> "pdf"]}}

LocInit ==
    /\ pc = "loc_fecha"
    /\ hoy \in DIAS_HOY
    /\ fecha_actual = hoy
    /\ pasos = 0
    /\ sondas = <<>>
    /\ loc_out = None
    /\ archivos \in ARCHIVOS_PREVIOS(hoy)
    /\ seccion_out = None
    /\ navegador = None
    /\ SegIdle /\ ExtIdle /\ ClasIdle /\ NewsIdle /\ RssIdle /\ SumIdle /\ SinkIdle /\ CargaIdle /\ GuiIdle

\* lines 52-53: one turn of the weekend loop
Retroceder ==
    /\ pc = "loc_fecha" /\ ~navegador.some
    /\ weekday(fecha_actual) > 4
    /\ fecha_actual' = DiaAnterior(fecha_actual)
    /\ pasos' = pasos + 1
    /\ UNCHANGED <<pc, hoy, sondas, loc_out, archivos, seccion_out, navegador,
                   segVars, extVars, clasVars, newsVars, rssVars, sumVars, sinkVars, cargaVars,
                   guiVars>>

\* lines 56-64 and 76-81: the first requests.head
PrimeraSonda ==
    /\ pc = "loc_fecha" /\ ~navegador.some
    /\ weekday(fecha_actual) <= 4
    /\ \E response \in RESPUESTAS :
          /\ sondas' = Append(sondas, [url |-> pdf_url_de(fecha_actual), response |-> response])
          /\ IF response.raised
             THEN pc' = "loc_error" /\ UNCHANGED <<fecha_actual, loc_out>>
             ELSE IF response.status_code = 404
             THEN /\ pc' = "loc_sonda2"
                  /\ fecha_actual' = DiaAnterior(fecha_actual)
                  /\ UNCHANGED loc_out
             ELSE /\ pc' = "loc_fin"
                  /\ loc_out' = Some([pdf_url |-> pdf_url_de(fecha_actual),
                                      nombre_archivo |-> nombre_archivo_de(fecha_actual)])
                  /\ UNCHANGED fecha_actual
    /\ UNCHANGED <<hoy, pasos, archivos, seccion_out, navegador, segVars, extVars, clasVars, newsVars, rssVars, sumVars,
                   sinkVars, cargaVars, guiVars>>

\* lines 67-81 taking the day before whatever the answer
SegundaSonda_sin_error ==
    /\ pc = "loc_sonda2"
    /\ \E response \in RESPUESTAS :
          /\ sondas' = Append(sondas, [url |-> pdf_url_de(fecha_actual), response |-> response])
          /\ IF response.raised
             THEN pc' = "loc_error" /\ UNCHANGED loc_out
             ELSE /\ pc' = "loc_fin"
                  /\ loc_out' = Some([pdf_url |-> pdf_url_de(fecha_actual),
                                      nombre_archivo |-> nombre_archivo_de(fecha_actual)])
    /\ UNCHANGED <<hoy, fecha_actual, pasos, archivos, seccion_out, navegador,
                   segVars, extVars, clasVars, newsVars, rssVars, sumVars, sinkVars, cargaVars,
                   guiVars>>

\* lines 67-81: the second requests.head, for the day before
SegundaSonda ==
    /\ pc = "loc_sonda2"
    /\ \E response \in RESPUESTAS :
          /\ sondas' = Append(sondas, [url |-> pdf_url_de(fecha_actual), response |-> response])
          /\ IF response.raised \/ response.status_code = 404
             THEN pc' = "loc_error" /\ UNCHANGED loc_out
             ELSE /\ pc' = "loc_fin"
                  /\ loc_out' = Some([pdf_url |-> pdf_url_de(fecha_actual),
                                      nombre_archivo |-> nombre_archivo_de(fecha_actual)])
    /\ UNCHANGED <<hoy, fecha_actual, pasos, archivos, seccion_out, navegador,
                   segVars, extVars, clasVars, newsVars, rssVars, sumVars, sinkVars, cargaVars,
                   guiVars>>

\* what a reader finds in a file: bytes that begin with %PDF, or anything
\* else (an empty file, a page of HTML, a download cut before its header)
CUERPOS == {"pdf", "no_pdf"}

\* open(ruta, 'wb') and the writes that follow: the file is created, or the
\* one of that name replaced
Escribir(fs, nombre, cuerpo) ==
    {f \in fs : f.nombre # nombre} \cup {[nombre |-> nombre, cuerpo |-> cuerpo]}

\* requests.get raised, or raise_for_status() does
ErrorHTTP(response) == response.raised \/ response.status_code >= 400

\* descargar_boletin(url, nombre_archivo) with the pair returned, lines
\* 96-119: the file is opened once the answer is good, and a stream that
\* breaks after that leaves what was written of it
DescargarBoletin ==
    /\ pc = "loc_fin" /\ ~navegador.some
    /\ \E response \in RESPUESTAS :
          IF ErrorHTTP(response)
          THEN pc' = "descarga_error" /\ UNCHANGED archivos
          ELSE \E cuerpo \in CUERPOS, corte \in BOOLEAN :
                  /\ archivos' = Escribir(archivos, loc_out.v.nombre_archivo, cuerpo)
                  /\ pc' = IF corte THEN "descarga_error" ELSE "descargado"
    /\ UNCHANGED <<hoy, fecha_actual, pasos, sondas, loc_out, seccion_out, navegador,
                   segVars, extVars, clasVars, newsVars, rssVars, sumVars, sinkVars, cargaVars,
                   guiVars>>

(***************************************************************************)
(* BoletinDownloader: descargar_primera_seccion and                        *)
(* descargar_primera_seccion_selenium                                      *)
(***************************************************************************)
base_url == <<"h", "t", "t", "p", "s", ":", "/", "/", "w", "w", "w", ".", "b", "o", "l", "e", "t", "i", "n", "o", "f", "i", "c", "i", "a", "l", ".", "g", "o", "b", ".", "a", "r">>

\* t.startswith(pre)
StartsWith(t, pre) == OccursAt(t, pre, 1)

\* re.findall(patron, t) for a pattern with one group that matches no empty
\* text: the group of each match, left to right
RECURSIVE re_findall(_, _)
re_findall(patron, t) ==
    LET m == ReSearch(patron, t, FALSE)
    IN  IF ~m.ok THEN <<>>
        ELSE <<Group(t, m, 1)>> \o re_findall(patron, SubSeq(t, m.e, Len(t)))

\* line 185: r'"([^"]*)"'
PatronParametro == Cat(<<Ch("\""), Grp(1, Star(NSet({"\""}))), Ch("\"")>>)

\* line 300: r"window\.open\('([^']+)'"
PatronWindowOpen ==
    Cat(<<Lit(<<"w", "i", "n", "d", "o", "w">>), Ch("."), Lit(<<"o", "p", "e", "n">>), Ch("("), Ch("'"),
          Grp(1, Plus(NSet({"'"}))), Ch("'")>>)

\* lines 170-173, and the selector of line 291: a button of class btn-circle
\* whose onclick holds "descargarPDFSeccion"
EsBotonDeDescarga(el) ==
    /\ el.name = "button"
    /\ \E k \in 1..Len(el.class) : el.class[k] = "btn-circle"
    /\ el.onclick.some /\ el.onclick.v # <<>>
    /\ Contains(el.onclick.v, <<"d", "e", "s", "c", "a", "r", "g", "a", "r", "P", "D", "F", "S", "e", "c", "c", "i", "o", "n">>)

\* soup.find / find_element: the first such element of the page
RECURSIVE BotonDesde(_, _)
BotonDesde(pagina, k) ==
    IF k > Len(pagina) THEN None
    ELSE IF EsBotonDeDescarga(pagina[k]) THEN Some(pagina[k])
    ELSE BotonDesde(pagina, k + 1)
soup_find(pagina) == BotonDesde(pagina, 1)

Elemento(name, class, onclick, clickable) ==
    [name |-> name, class |-> class, onclick |-> onclick, clickable |-> clickable]

OnclickTresParametros == <<"d", "e", "s", "c", "a", "r", "g", "a", "r", "P", "D", "F", "S", "e", "c", "c", "i", "o", "n", "(", "\"", "p", "r", "i", "m", "e", "r", "a", "\"", ",", "\"", "2", "0", "2", "5", "0", "5", "2", "3", "\"", ",", " ", "\"", "/", "p", "d", "f", "/", "s", "e", "c", "c", "i", "o", "n", "\"", ")">>
OnclickUnParametro == <<"d", "e", "s", "c", "a", "r", "g", "a", "r", "P", "D", "F", "S", "e", "c", "c", "i", "o", "n", "(", "\"", "p", "r", "i", "m", "e", "r", "a", "\"", ")">>
OnclickWindowOpen == <<"d", "e", "s", "c", "a", "r", "g", "a", "r", "P", "D", "F", "S", "e", "c", "c", "i", "o", "n", "(", ")", ";", "w", "i", "n", "d", "o", "w", ".", "o", "p", "e", "n", "(", "'", "/", "p", "d", "f", "/", "p", "r", "i", "m", "e", "r", "a", "'", ")">>
OnclickAmbos == <<"w", "i", "n", "d", "o", "w", ".", "o", "p", "e", "n", "(", "'", "h", "t", "t", "p", ":", "/", "/", "o", ".", "a", "r", "/", "p", "'", ")", ";", "d", "e", "s", "c", "a", "r", "g", "a", "r", "P", "D", "F", "S", "e", "c", "c", "i", "o", "n", "(", "\"", "a", "\"", ",", "\"", "b", "\"", ",", "\"", "c", "\"", ")">>
OnclickWindowOpenVacio == <<"d", "e", "s", "c", "a", "r", "g", "a", "r", "P", "D", "F", "S", "e", "c", "c", "i", "o", "n", "(", ")", ";", "w", "i", "n", "d", "o", "w", ".", "o", "p", "e", "n", "(", "'", "'", ")">>
OnclickImprimir == <<"i", "m", "p", "r", "i", "m", "i", "r", "(", "\"", "a", "\"", ",", "\"", "b", "\"", ",", "\"", "c", "\"", ")">>

PaginaConBoton ==
    <<Elemento("button", <<"btn", "btn-circle">>, Some(OnclickTresParametros), TRUE)>>

\* the pages /seccion/primera may answer with, as the elements that carry a
\* class or an onclick, in document order
PAGINAS_SECCION ==
    {<<>>,
     PaginaConBoton,
     <<Elemento("button", <<"btn-circle">>, Some(OnclickUnParametro), TRUE)>>,
     <<Elemento("a", <<"btn-circle">>, Some(OnclickTresParametros), TRUE),
       Elemento("button", <<"btn">>, Some(OnclickTresParametros), TRUE),
       Elemento("button", <<"btn-circle">>, None, TRUE),
       Elemento("button", <<"btn-circle">>, Some(OnclickImprimir), TRUE),
       Elemento("button", <<"btn-circle">>, Some(OnclickWindowOpen), TRUE),
       Elemento("button", <<"btn-circle">>, Some(OnclickTresParametros), TRUE)>>,
     <<Elemento("button", <<"btn-circle">>, Some(OnclickAmbos), TRUE)>>,
     <<Elemento("button", <<"btn-circle">>, Some(OnclickAmbos), FALSE),
       Elemento("button", <<"btn-circle">>, Some(OnclickAmbos), TRUE)>>,
     <<Elemento("button", <<"btn-circle">>, Some(OnclickWindowOpenVacio), TRUE)>>}

TipoPdf == <<"a", "p", "p", "l", "i", "c", "a", "t", "i", "o", "n", "/", "p", "d", "f">>
CONTENT_TYPES == {None, Some(TipoPdf), Some(<<"A", "p", "p", "l", "i", "c", "a", "t", "i", "o", "n", "/", "P", "D", "F", ";", " ", "c", "h", "a", "r", "s", "e", "t", "=", "b", "i", "n", "a", "r", "y">>), Some(<<"t", "e", "x", "t", "/", "h", "t", "m", "l", ";", " ", "c", "h", "a", "r", "s", "e", "t", "=", "u", "t", "f", "-", "8">>)}

FechaDada == <<"2", "0", "2", "5", "0", "2", "2", "6">>
FECHAS_DE_LLAMADA == {None, Some(FechaDada)}

RespuestaBuena == [raised |-> FALSE, status_code |-> 200]

\* what descargar_primera_seccion meets: the date asked for, the answers to
\* its three requests, the page, the Content-Type and the body of the last
\* answer, and whether its stream breaks
LlamadaBuena ==
    [fecha |-> None, r1 |-> RespuestaBuena, r2 |-> RespuestaBuena, pagina |-> PaginaConBoton,
     r3 |-> RespuestaBuena, content_type |-> Some(TipoPdf), cuerpo |-> "pdf", corte |-> FALSE]

\* one call for each way each step may go, the steps before it going well
LLAMADAS_SECCION ==
    UNION {{[b EXCEPT !.r1 = r] : r \in RESPUESTAS}
           \cup {[b EXCEPT !.r2 = r] : r \in RESPUESTAS}
           \cup {[b EXCEPT !.pagina = p] : p \in PAGINAS_SECCION}
           \cup {[b EXCEPT !.r3 = r] : r \in RESPUESTAS}
           \cup {[b EXCEPT !.content_type = c] : c \in CONTENT_TYPES}
           \cup {[b EXCEPT !.cuerpo = c, !.corte = x] : c \in CUERPOS, x \in BOOLEAN} :
           b \in {[LlamadaBuena EXCEPT !.fecha = f] : f \in FECHAS_DE_LLAMADA}}

\* lines 152-213: how far the call gets with what it meets: whether the PDF
\* is asked for, what is written to the file ("" when it is not opened), and
\* whether the call raises
camino_primera_seccion(e) ==
    LET download_button == soup_find(e.pagina)
        params == re_findall(PatronParametro, download_button.v.onclick.v)
        content_type == IF e.content_type.some THEN e.content_type.v ELSE <<>>
        Lanza(pedido) == [fecha |-> e.fecha, pedido |-> pedido, escribe |-> "", raised |-> TRUE]
    IN  IF ErrorHTTP(e.r1) \/ ErrorHTTP(e.r2) THEN Lanza(FALSE)
        ELSE IF ~download_button.some THEN Lanza(FALSE)
        ELSE IF Len(params) < 3 THEN Lanza(FALSE)
        ELSE IF ErrorHTTP(e.r3) THEN Lanza(TRUE)
        ELSE IF ~Contains(Lower(content_type), TipoPdf) THEN Lanza(TRUE)
        ELSE [fecha |-> e.fecha, pedido |-> TRUE, escribe |-> e.cuerpo, raised |-> e.corte]

\* lines 131-137, 192-193 and 215-229, for the day now and the files fs:
\* whether the call raised, the file it returned (its name under
\* temp_boletines), the URL it asked the PDF from, and the files it leaves
primera_seccion_por(fs, now, c) ==
    LET fecha == FechaDeLlamada(now, c.fecha)
        nombre_archivo == nombre_primera_seccion(fecha)
    IN  [raised |-> c.raised,
         ruta |-> IF c.raised THEN <<>> ELSE nombre_archivo,
         url |-> IF c.pedido THEN base_url \o <<"/", "s", "e", "c", "c", "i", "o", "n", "/", "p", "r", "i", "m", "e", "r", "a", "/", "p", "d", "f", "/">> \o fecha ELSE <<>>,
         archivos |-> IF c.escribe = "" THEN fs ELSE Escribir(fs, nombre_archivo, c.escribe)]

\* descargar_primera_seccion(fecha), lines 121-233
descargar_primera_seccion(fs, now, e) == primera_seccion_por(fs, now, camino_primera_seccion(e))

CAMINOS_SECCION == {camino_primera_seccion(e) : e \in LLAMADAS_SECCION}

\* the name a browser gives a download when it is not the one awaited
NombreDelServidor == <<"p", "r", "i", "m", "e", "r", "a", ".", "p", "d", "f">>

\* what the browser leaves in the download directory: nothing, or a file,
\* under the name awaited or under another; tarde: the file lands after the
\* last check the call makes of it and before driver.quit() (during the
\* sleep of line 332 that follows the thirtieth check, or between the check
\* that returns and the finally clause)
SinBajada == [hay |-> FALSE, esperado |-> FALSE, cuerpo |-> "no_pdf", tarde |-> FALSE]
BAJADAS ==
    {SinBajada}
       \cup {[hay |-> TRUE, esperado |-> x, cuerpo |-> c, tarde |-> t] :
                x \in BOOLEAN, c \in CUERPOS, t \in BOOLEAN}

\* what descargar_primera_seccion_selenium meets: the date asked for, whether
\* the imports and the browser start, whether each driver.get goes well, the
\* page, and what the browser leaves
LlamadaSeleniumBuena ==
    [fecha |-> None, arranque |-> TRUE, get1 |-> TRUE,
     pagina |-> <<Elemento("button", <<"btn-circle">>, Some(OnclickWindowOpen), TRUE)>>,
     get2 |-> TRUE,
     bajada |-> [hay |-> TRUE, esperado |-> TRUE, cuerpo |-> "pdf", tarde |-> FALSE]]

LLAMADAS_SELENIUM ==
    UNION {{[b EXCEPT !.arranque = x] : x \in BOOLEAN}
           \cup {[b EXCEPT !.get1 = x] : x \in BOOLEAN}
           \cup {[b EXCEPT !.pagina = p] : p \in PAGINAS_SECCION}
           \cup {[b EXCEPT !.pagina = p, !.get2 = FALSE] : p \in PAGINAS_SECCION}
           \cup {[b EXCEPT !.bajada = x] : x \in BAJADAS} :
           b \in {[LlamadaSeleniumBuena EXCEPT !.fecha = f] : f \in FECHAS_DE_LLAMADA}}

\* lines 245-311: how far the call gets: the URL the browser is sent to for
\* the PDF (empty when it is not), whether the wait for the file begins, and
\* what the browser leaves
camino_selenium(e) ==
    LET download_button == soup_find(e.pagina)
        onclick_value == download_button.v.onclick.v
        match == ReSearch(PatronWindowOpen, onclick_value, FALSE)
        group1 == Group(onclick_value, match, 1)
        download_url == IF StartsWith(group1, <<"h", "t", "t", "p">>) THEN group1 ELSE base_url \o group1
        Lanza(url) == [fecha |-> e.fecha, url |-> url, espera |-> FALSE, bajada |-> SinBajada]
    IN  IF ~e.arranque \/ ~e.get1 THEN Lanza(<<>>)
        ELSE IF ~download_button.some \/ ~download_button.v.clickable THEN Lanza(<<>>)
        ELSE IF ~match.ok THEN Lanza(<<>>)
        ELSE IF ~e.get2 THEN Lanza(download_url)
        ELSE [fecha |-> e.fecha, url |-> download_url, espera |-> TRUE, bajada |-> e.bajada]

\* lines 320-325: the file is there, is not empty and begins with %PDF
EsPdfValido(fs, nombre) == [nombre |-> nombre, cuerpo |-> "pdf"] \in fs

\* lines 252-257 and 313-335, in the terms of primera_seccion_por, the call
\* from its beginning to its end: it
\* returns when one of its checks (at most 30, a second apart) finds the
\* file awaited to be a PDF, whoever wrote it, and raises TimeoutError when
\* none does.  The checks see the file the browser leaves unless it lands
\* late: then they see the files as they were, and the file is left all the
\* same
selenium_por(fs, now, c) ==
    LET fecha == FechaDeLlamada(now, c.fecha)
        nombre_archivo == nombre_primera_seccion(fecha)
        fs2 == IF ~c.bajada.hay THEN fs
               ELSE Escribir(fs, IF c.bajada.esperado THEN nombre_archivo
                                 ELSE NombreDelServidor,
                             c.bajada.cuerpo)
        vistos == IF c.bajada.tarde THEN fs ELSE fs2
        valido == c.espera /\ EsPdfValido(vistos, nombre_archivo)
    IN  [raised |-> ~valido,
         ruta |-> IF valido THEN nombre_archivo ELSE <<>>,
         url |-> c.url,
         archivos |-> fs2]

\* descargar_primera_seccion_selenium(fecha), lines 235-343
descargar_primera_seccion_selenium(fs, now, e) == selenium_por(fs, now, camino_selenium(e))

CAMINOS_SELENIUM == {camino_selenium(e) : e \in LLAMADAS_SELENIUM}

\* no method of the downloader is running, and neither download of the
\* first section has been called in this run
SinLlamadaEnCurso ==
    /\ ~seccion_out.some /\ ~navegador.some
    /\ \/ pc = "loc_fecha" /\ pasos = 0
       \/ pc \in {"loc_error", "loc_fin", "descargado", "descarga_error"}

Resultado(r) == Some([raised |-> r.raised, ruta |-> r.ruta, url |-> r.url])

DescargarPrimeraSeccion ==
    /\ SinLlamadaEnCurso
    /\ \E c \in CAMINOS_SECCION :
          LET r == primera_seccion_por(archivos, hoy, c)
          IN  archivos' = r.archivos /\ seccion_out' = Resultado(r)
    /\ UNCHANGED <<pc, hoy, fecha_actual, pasos, sondas, loc_out, navegador,
                   segVars, extVars, clasVars, newsVars, rssVars, sumVars, sinkVars, cargaVars,
                   guiVars>>

\* line 318: the checks the call makes of the file, a second apart
timeout_descarga == 30

\* the file the call of the browser waits for
ArchivoEsperado == nombre_primera_seccion(FechaDeLlamada(hoy, navegador.v.c.fecha))

\* descargar_primera_seccion_selenium, lines 245-318: up to the wait for the
\* file.  A call that raises before the wait ends here (the browser, if it
\* started, is quit with nothing asked of it); otherwise the browser has
\* been sent to the URL of the PDF and the call begins its checks.  When
\* the file lands is the browser's affair (GuardarDescarga)
DescargarPrimeraSeccionSelenium ==
    /\ SinLlamadaEnCurso
    /\ \E c \in {x \in CAMINOS_SELENIUM : ~x.bajada.tarde} :
          IF c.espera
          THEN /\ navegador' = Some([c |-> c, timeout |-> timeout_descarga,
                                     bajado |-> FALSE, retorno |-> None])
               /\ UNCHANGED seccion_out
          ELSE /\ seccion_out' = Some([raised |-> TRUE, ruta |-> <<>>, url |-> c.url])
               /\ UNCHANGED navegador
    /\ UNCHANGED <<pc, hoy, fecha_actual, pasos, sondas, loc_out, archivos,
                   segVars, extVars, clasVars, newsVars, rssVars, sumVars, sinkVars, cargaVars,
                   guiVars>>

\* the browser, a process of its own, saves the download in temp_boletines,
\* at any moment between driver.get(download_url) and driver.quit(): before
\* a check, between two checks, or after the last one
GuardarDescarga ==
    /\ navegador.some
    /\ navegador.v.c.bajada.hay /\ ~navegador.v.bajado
    /\ archivos' = Escribir(archivos,
                            IF navegador.v.c.bajada.esperado THEN ArchivoEsperado
                            ELSE NombreDelServidor,
                            navegador.v.c.bajada.cuerpo)
    /\ navegador' = Some([navegador.v EXCEPT !.bajado = TRUE])
    /\ UNCHANGED <<pc, hoy, fecha_actual, pasos, sondas, loc_out, seccion_out,
                   segVars, extVars, clasVars, newsVars, rssVars, sumVars, sinkVars, cargaVars,
                   guiVars>>

\* lines 319-333, one turn of the while loop: the file awaited is there and
\* is a PDF, and the call is to return its path; or it is not, and the call
\* sleeps a second with one check less to make
VerificarDescarga ==
    /\ navegador.some
    /\ ~navegador.v.retorno.some /\ navegador.v.timeout > 0
    /\ navegador' =
          Some(IF EsPdfValido(archivos, ArchivoEsperado)
               THEN [navegador.v EXCEPT !.retorno =
                        Some([raised |-> FALSE, ruta |-> ArchivoEsperado,
                              url |-> navegador.v.c.url])]
               ELSE [navegador.v EXCEPT !.timeout = @ - 1])
    /\ UNCHANGED <<pc, hoy, fecha_actual, pasos, sondas, loc_out, archivos, seccion_out,
                   segVars, extVars, clasVars, newsVars, rssVars, sumVars, sinkVars, cargaVars,
                   guiVars>>

\* line 335: no check is left, the call raises TimeoutError
AgotarEspera ==
    /\ navegador.some
    /\ ~navegador.v.retorno.some /\ navegador.v.timeout = 0
    /\ navegador' = Some([navegador.v EXCEPT !.retorno =
                             Some([raised |-> TRUE, ruta |-> <<>>,
                                   url |-> navegador.v.c.url])])
    /\ UNCHANGED <<pc, hoy, fecha_actual, pasos, sondas, loc_out, archivos, seccion_out,
                   segVars, extVars, clasVars, newsVars, rssVars, sumVars, sinkVars, cargaVars,
                   guiVars>>

\* lines 337-343: the finally clause quits the browser, and the call ends,
\* returning the path or raising (the except clause logs and raises again)
CerrarNavegador ==
    /\ navegador.some
    /\ navegador.v.retorno.some
    /\ seccion_out' = navegador.v.retorno
    /\ navegador' = None
    /\ UNCHANGED <<pc, hoy, fecha_actual, pasos, sondas, loc_out, archivos,
                   segVars, extVars, clasVars, newsVars, rssVars, sumVars, sinkVars, cargaVars,
                   guiVars>>

LocNext ==
    \/ Retroceder \/ PrimeraSonda \/ SegundaSonda \/ DescargarBoletin
    \/ DescargarPrimeraSeccion \/ DescargarPrimeraSeccionSelenium
    \/ GuardarDescarga \/ VerificarDescarga \/ AgotarEspera \/ CerrarNavegador

SpecLoc == LocInit /\ [][LocNext]_vars

(***************************************************************************)
(* C13, C14: claims on the gazette locator                                 *)
(***************************************************************************)
NoEncontrado(sonda) == ~sonda.response.raised /\ sonda.response.status_code = 404
Respondio(sonda) == ~sonda.response.raised /\ sonda.response.status_code # 404

\* Monday to Friday, from the day number alone (day 1 was a Monday)
EsHabil(f) == Ordinal(f) % 7 \in 1..5

\* the most recent Monday-to-Friday date not later than f
UltimoHabil(f) ==
    IF EsHabil(f) THEN f
    ELSE IF EsHabil(DiaAnterior(f)) THEN DiaAnterior(f)
    ELSE DiaAnterior(DiaAnterior(f))

\* the probes made and what they led to
C13_Sondas ==
    /\ Len(sondas) <= 2
    /\ Len(sondas) = 2 =>
          /\ NoEncontrado(sondas[1])
          /\ sondas[2].url = pdf_url_de(DiaAnterior(UltimoHabil(hoy)))
    /\ (Len(sondas) = 2 /\ NoEncontrado(sondas[2])) =>
          pc = "loc_error" /\ loc_out = None
    /\ (Len(sondas) >= 1 /\ NoEncontrado(sondas[1]) /\ pc # "loc_sonda2") =>
          Len(sondas) = 2
    /\ (Len(sondas) >= 1 /\ Respondio(sondas[1])) =>
          /\ Len(sondas) = 1
          /\ pc \in {"loc_fin", "descargado", "descarga_error"}
          /\ loc_out = Some([pdf_url |-> sondas[1].url,
                             nombre_archivo |-> nombre_archivo_de(UltimoHabil(hoy))])

\* C13: when both the first candidate date and the day before it answer 404,
\* obtener_ultimo_boletin raises, returns no URL and writes no file, after
\* exactly two probes; when the first probe is not 404 there is exactly one
\* probe and the URL of that date is returned.  No step of
\* obtener_ultimo_boletin (a turn of the weekend loop, a probe) changes the
\* files.
C13_DosSondas ==
    /\ []C13_Sondas
    /\ [][(pasos' # pasos \/ sondas' # sondas) => archivos' = archivos]_vars

\* both probes answered 404: the call has failed
C13_Witness ==
    /\ Len(sondas) = 2
    /\ NoEncontrado(sondas[1]) /\ NoEncontrado(sondas[2])
    /\ pc = "loc_error"

\* C14: the first date probed is the most recent Monday-to-Friday date not
\* later than today (today on a weekday, the Friday before on a Saturday or
\* a Sunday), and the weekend loop takes at most two turns.
C14_PrimerCandidato ==
    /\ pasos <= 2
    /\ Len(sondas) >= 1 =>
          /\ sondas[1].url = pdf_url_de(UltimoHabil(hoy))
          /\ EsHabil(hoy) => pasos = 0
          /\ Ordinal(hoy) % 7 = 6 =>
                pasos = 1 /\ Ordinal(UltimoHabil(hoy)) = Ordinal(hoy) - 1
          /\ Ordinal(hoy) % 7 = 0 =>
                pasos = 2 /\ Ordinal(UltimoHabil(hoy)) = Ordinal(hoy) - 2
          /\ Ordinal(UltimoHabil(hoy)) % 7 \in 1..5

\* run on Sunday the 2nd of March 2025: two turns, Friday the 28th of
\* February is probed
C14_Witness ==
    /\ hoy = Fecha(2025, 3, 2)
    /\ pasos = 2
    /\ Len(sondas) >= 1
    /\ sondas[1].url = pdf_url_de(Fecha(2025, 2, 28))

\* today and the four days before it
DiasRecientes(f) ==
    {f, DiaAnterior(f), DiaAnterior(DiaAnterior(f)),
     DiaAnterior(DiaAnterior(DiaAnterior(f))),
     DiaAnterior(DiaAnterior(DiaAnterior(DiaAnterior(f))))}

\* the URL is the one of a Monday-to-Friday date
UrlDeDiaHabil(url) == \E f \in DiasRecientes(hoy) : EsHabil(f) /\ url = pdf_url_de(f)

\* C28: every date whose URL obtener_ultimo_boletin probes, and the date
\* whose URL it returns, is a Monday-to-Friday date, whatever the day it is
\* run on and whatever the first probe answers.
C28_SoloDiasHabiles ==
    /\ \A j \in 1..Len(sondas) : UrlDeDiaHabil(sondas[j].url)
    /\ loc_out.some => UrlDeDiaHabil(loc_out.v.pdf_url)

(***************************************************************************)
(* BoletinPDFProcessor._extraer_sumario                                    *)
(***************************************************************************)
\* the keys of self.tipos_documentos as text, in the order of the dict
claves_tipos ==
    <<<<"L", "E", "Y">>,
      <<"D", "E", "C", "R", "E", "T", "O">>,
      <<"R", "E", "S", "O", "L", "U", "C", "I", "Ó", "N">>,
      <<"D", "I", "S", "P", "O", "S", "I", "C", "I", "Ó", "N">>,
      <<"D", "E", "C", "I", "S", "I", "Ó", "N", " ",
        "A", "D", "M", "I", "N", "I", "S", "T", "R", "A", "T", "I", "V", "A">>>>

MarcaSUMARIO == <<"S", "U", "M", "A", "R", "I", "O">>
MarcaPrimeraSeccion ==
    <<"P", "r", "i", "m", "e", "r", "a", " ", "S", "e", "c", "c", "i", "ó", "n">>

\* procesar_pdf, line 498: pdf.pages[:3]
PaginasSumario == 3
paginas_iniciales == Primeras(paginas, PaginasSumario)

\* the tail of the pattern of line 578 after the number:  .*?\.+\s*pág\.\s*(\d+)
ColaSumario ==
    <<RepLazy(Punto, 0, -1), Plus(Ch(".")), Star(Esp),
      Lit(<<"p", "á", "g">>), Ch("."), Star(Esp), Grp(2, Plus(Dig))>>

\* line 578: fr'{tipo}\s+(\d+/\d{4}).*?\.+\s*pág\.\s*(\d+)'.  In an f-string
\* {4} is a replacement field, so the pattern handed to re.search is
\*     tipo\s+(\d+/\d4).*?\.+\s*pág\.\s*(\d+)
PatronSumario(k) ==
    Cat(<<Lit(claves_tipos[k]), Plus(Esp),
          Grp(1, Cat(<<Plus(Dig), Ch("/"), Dig, Ch("4")>>))>> \o ColaSumario)

\* int(s) of a run of decimal digits
RECURSIVE Entero(_)
Entero(s) ==
    IF Len(s) = 0 THEN 0
    ELSE Entero(SubSeq(s, 1, Len(s) - 1)) * 10
         + ValorDeDigito(s[Len(s)])

\* lines 576-586: the for loop over the types, for one line: the entry of
\* the first type that is in the line and whose pattern matches, if any
RECURSIVE EntradaDeLineaDesde(_, _)
EntradaDeLineaDesde(l, k) ==
    IF k > Len(claves_tipos) THEN None
    ELSE IF Contains(l, claves_tipos[k])
              /\ ReSearch(PatronSumario(k), l, FALSE).ok
         THEN LET match == ReSearch(PatronSumario(k), l, FALSE)
              IN  Some([tipo |-> tipos_documentos[k].tipo,
                        numero |-> Group(l, match, 1),
                        pagina |-> Entero(Group(l, match, 2)),
                        referencia |-> Strip(l)])
         ELSE EntradaDeLineaDesde(l, k + 1)
EntradaDeLinea(l) == EntradaDeLineaDesde(l, 1)

\* the line loop of _extraer_sumario without the return of lines 589-590
RECURSIVE LeerLineasDesde_sin_corte(_, _, _, _, _)
LeerLineasDesde_sin_corte(ls, p, k, sum, prob) ==
    IF k > Len(ls) THEN [sumario |-> sum, probadas |-> prob, fin |-> FALSE]
    ELSE IF Len(Strip(ls[k])) = 0
         THEN LeerLineasDesde_sin_corte(ls, p, k + 1, sum, prob)
    ELSE LET e == EntradaDeLinea(ls[k])
         IN  LeerLineasDesde_sin_corte(ls, p, k + 1,
                                       IF e.some THEN Append(sum, e.v) ELSE sum,
                                       Append(prob, <<p, k>>))

\* lines 571-590: the for loop over the lines ls of page p, from line k on:
\* what sumario and the lines tested become, and whether the function
\* returned on a line holding "Primera Sección"
RECURSIVE LeerLineasDesde(_, _, _, _, _)
LeerLineasDesde(ls, p, k, sum, prob) ==
    IF k > Len(ls) THEN [sumario |-> sum, probadas |-> prob, fin |-> FALSE]
    ELSE IF Len(Strip(ls[k])) = 0
         THEN LeerLineasDesde(ls, p, k + 1, sum, prob)
    ELSE LET e == EntradaDeLinea(ls[k])
             sum2 == IF e.some THEN Append(sum, e.v) ELSE sum
             prob2 == Append(prob, <<p, k>>)
         IN  IF Contains(ls[k], MarcaPrimeraSeccion)
             THEN [sumario |-> sum2, probadas |-> prob2, fin |-> TRUE]
             ELSE LeerLineasDesde(ls, p, k + 1, sum2, prob2)

MaxLineasSum == 3

\* the lines the first pages may hold; the issue may open with a page
\* without text
LINEAS_SUM ==
    {<<"S", "U", "M", "A", "R", "I", "O">>,
     <<"L", "E", "Y", " ", "1", "/", "2", "0", "2", "5", " ", ".", " ", "p", "á", "g", ".", " ", "3">>,
     <<" ", "D", "E", "C", "R", "E", "T", "O", " ", "2", "/", "1", "4", "2", "5", " ", ".", ".", "p", "á", "g", ".", "1", "0">>,
     <<"P", "r", "i", "m", "e", "r", "a", " ", "S", "e", "c", "c", "i", "ó", "n">>,
     <<" ">>,
     <<"v", "e", "r", " ", "L", "E", "Y", " ", "5">>}

SumInit ==
    /\ pc = "sum"
    /\ \E ls \in SeqsHasta(LINEAS_SUM, MaxLineasSum) \ {<<>>} :
          \E cortes \in SUBSET (1..(Len(ls) - 1)) :
             \E portada \in {<<>>, <<<<>>>>} :
                paginas = portada \o Paginar(ls, cortes)
    /\ i = 0
    /\ n_linea = 0
    /\ documento_actual = None
    /\ texto_documento = <<>>
    /\ documentos = <<>>
    /\ en_sumario = FALSE
    /\ n_pag = 1
    /\ sumario = <<>>
    /\ probadas = <<>>
    /\ ExtIdle /\ ClasIdle /\ NewsIdle /\ RssIdle /\ LocIdle /\ SinkIdle /\ CargaIdle /\ GuiIdle

\* lines 563-565: the page holds "SUMARIO" and capture has not begun: capture
\* begins and the loop goes on with the next page
MarcaSumario ==
    /\ pc = "sum"
    /\ n_pag <= Len(paginas_iniciales)
    /\ Contains(paginas_iniciales[n_pag], MarcaSUMARIO) /\ ~en_sumario
    /\ en_sumario' = TRUE
    /\ n_pag' = n_pag + 1
    /\ UNCHANGED <<pc, paginas, i, n_linea, documento_actual, texto_documento,
                   documentos, sumario, probadas>>
    /\ UNCHANGED <<extVars, clasVars, newsVars, rssVars, locVars, sinkVars, cargaVars, guiVars>>

\* lines 567-568: a page read before capture has begun
SaltarPagina ==
    /\ pc = "sum"
    /\ n_pag <= Len(paginas_iniciales)
    /\ ~Contains(paginas_iniciales[n_pag], MarcaSUMARIO) /\ ~en_sumario
    /\ n_pag' = n_pag + 1
    /\ UNCHANGED <<pc, paginas, i, n_linea, documento_actual, texto_documento,
                   documentos, en_sumario, sumario, probadas>>
    /\ UNCHANGED <<extVars, clasVars, newsVars, rssVars, locVars, sinkVars, cargaVars, guiVars>>

\* lines 571-590: a page read while capturing
LeerPagina ==
    /\ pc = "sum"
    /\ n_pag <= Len(paginas_iniciales)
    /\ en_sumario
    /\ LET r == LeerLineasDesde(Split(paginas_iniciales[n_pag], NL), n_pag, 1,
                                sumario, probadas)
       IN  /\ sumario' = r.sumario
           /\ probadas' = r.probadas
           /\ pc' = IF r.fin THEN "sum_fin" ELSE "sum"
           /\ n_pag' = IF r.fin THEN n_pag ELSE n_pag + 1
    /\ UNCHANGED <<paginas, i, n_linea, documento_actual, texto_documento,
                   documentos, en_sumario>>
    /\ UNCHANGED <<extVars, clasVars, newsVars, rssVars, locVars, sinkVars, cargaVars, guiVars>>

\* line 592: the pages are exhausted
FinSumario ==
    /\ pc = "sum"
    /\ n_pag > Len(paginas_iniciales)
    /\ pc' = "sum_fin"
    /\ UNCHANGED <<paginas, i, n_linea, documento_actual, texto_documento,
                   documentos, sumVars, sinkVars, cargaVars, guiVars>>
    /\ UNCHANGED <<extVars, clasVars, newsVars, rssVars, locVars, sinkVars, cargaVars, guiVars>>

SumNext == MarcaSumario \/ SaltarPagina \/ LeerPagina \/ FinSumario

SpecSum == SumInit /\ [][SumNext]_vars

(***************************************************************************)
(* C15, C16: claims on the summary extractor                               *)
(***************************************************************************)
\* the lines of the pages handed to _extraer_sumario, by (page, line)
PosicionesSum ==
    {x \in (1..PaginasSumario) \X (1..MaxLineasSum) :
        /\ x[1] <= Len(paginas_iniciales)
        /\ x[2] <= Len(Split(paginas_iniciales[x[1]], NL))}
LineaEn(x) == Split(paginas_iniciales[x[1]], NL)[x[2]]
Antes(x, y) == x[1] < y[1] \/ (x[1] = y[1] /\ x[2] < y[2])
Probada(x) == \E j \in 1..Len(probadas) : probadas[j] = x

\* the first line holding "SUMARIO", and the lines holding "Primera Sección"
EsMarca(x) ==
    /\ Contains(LineaEn(x), MarcaSUMARIO)
    /\ \A y \in PosicionesSum : Contains(LineaEn(y), MarcaSUMARIO) => ~Antes(y, x)
EsCorte(x) == Contains(LineaEn(x), MarcaPrimeraSeccion)

\* C15: when _extraer_sumario has returned, no line before the first line
\* holding "SUMARIO" was tested for an entry, and every non-blank line after
\* it (on its page or on a later one) with no "Primera Sección" line between
\* the two was tested.
C15_CapturaDesdeMarca ==
    pc = "sum_fin" =>
        \A x \in PosicionesSum :
            /\ (\A m \in PosicionesSum : EsMarca(m) => Antes(x, m)) => ~Probada(x)
            /\ (/\ Len(Strip(LineaEn(x))) > 0
                /\ \E m \in PosicionesSum :
                      /\ EsMarca(m) /\ Antes(m, x)
                      /\ \A y \in PosicionesSum :
                            (Antes(m, y) /\ Antes(y, x)) => ~EsCorte(y))
                  => Probada(x)

\* the pattern of line 578 as the claim reads it, with a year of four digits:
\*     tipo\s+(\d+/\d{4}).*?\.+\s*pág\.\s*(\d+)
PatronSumarioCuatro(k) ==
    Cat(<<Lit(claves_tipos[k]), Plus(Esp),
          Grp(1, Cat(<<Plus(Dig), Ch("/"), Rep(Dig, 4, 4)>>))>> \o ColaSumario)

\* C16: when _extraer_sumario has returned, a tested line of the form
\* "<TYPE> <num>/<four-digit year> ... dots ... pág. <page>" has its entry in
\* sumario, with tipo the type, numero "<num>/<year>", pagina the page as an
\* integer and referencia the stripped line; and there are no more entries
\* than tested lines.
C16_EntradaDeSumario ==
    pc = "sum_fin" =>
        /\ Len(sumario) <= Len(probadas)
        /\ \A j \in 1..Len(probadas) : \A k \in 1..Len(claves_tipos) :
              LET l == LineaEn(probadas[j])
                  m == ReSearch(PatronSumarioCuatro(k), l, FALSE)
              IN  m.ok =>
                     \E e \in 1..Len(sumario) :
                        sumario[e] = [tipo |-> tipos_documentos[k].tipo,
                                      numero |-> Group(l, m, 1),
                                      pagina |-> Entero(Group(l, m, 2)),
                                      referencia |-> Strip(l)]

(***************************************************************************)
(* C22: the summary extractor stops at "Primera Sección"                   *)
(***************************************************************************)
\* the lines the pages after the "SUMARIO" page may hold: two entries, the
\* end marker alone, and the end marker on a line that is itself an entry
LINEAS_CORTE ==
    {<<" ", "D", "E", "C", "R", "E", "T", "O", " ", "2", "/", "1", "4", "2", "5", " ", ".", ".", "p", "á", "g", ".", "1", "0">>,
     <<"L", "E", "Y", " ", "7", "/", "3", "4", " ", ".", "p", "á", "g", ".", "2">>,
     <<"P", "r", "i", "m", "e", "r", "a", " ", "S", "e", "c", "c", "i", "ó", "n">>,
     <<"L", "E", "Y", " ", "9", "/", "1", "4", " ", ".", "p", "á", "g", ".", "1", " ", "P", "r", "i", "m", "e", "r", "a", " ", "S", "e", "c", "c", "i", "ó", "n">>}

CorteInit ==
    /\ pc = "sum"
    /\ \E ls \in SeqsHasta(LINEAS_CORTE, MaxLineasSum) \ {<<>>} :
          \E cortes \in SUBSET (1..(Len(ls) - 1)) :
             \E portada \in {<<>>, <<<<>>>>} :
                paginas = portada \o <<MarcaSUMARIO>> \o Paginar(ls, cortes)
    /\ i = 0
    /\ n_linea = 0
    /\ documento_actual = None
    /\ texto_documento = <<>>
    /\ documentos = <<>>
    /\ en_sumario = FALSE
    /\ n_pag = 1
    /\ sumario = <<>>
    /\ probadas = <<>>
    /\ ExtIdle /\ ClasIdle /\ NewsIdle /\ RssIdle /\ LocIdle /\ SinkIdle /\ CargaIdle /\ GuiIdle

SpecCorte == CorteInit /\ [][SumNext]_vars

\* the entries of the lines at the positions ps, in the order of ps
RECURSIVE EntradasDe(_)
EntradasDe(ps) ==
    IF Len(ps) = 0 THEN <<>>
    ELSE LET e == EntradaDeLinea(LineaEn(Head(ps)))
         IN  (IF e.some THEN <<e.v>> ELSE <<>>) \o EntradasDe(Tail(ps))

\* C22: once _extraer_sumario, while capturing, has read a line holding
\* "Primera Sección" it has returned: no line after that one, on its page or
\* on a later page, is read, and the entries returned are those of the lines
\* read, in the order the lines were read (page by page, top to bottom).
C22_CorteInmediato ==
    /\ pc = "sum" => \A j \in 1..Len(probadas) : ~EsCorte(probadas[j])
    /\ \A x \in PosicionesSum :
          (\E j \in 1..Len(probadas) :
              EsCorte(probadas[j]) /\ Antes(probadas[j], x)) => ~Probada(x)
    /\ \A j, k \in 1..Len(probadas) : j < k => Antes(probadas[j], probadas[k])
    /\ sumario = EntradasDe(probadas)

\* a page with an entry, then a line that holds an entry and the end marker,
\* then another entry: the function returned the first two entries, in that
\* order, and never read the third line
C22_Witness ==
    /\ pc = "sum_fin"
    /\ paginas = <<MarcaSUMARIO,
                   Join(<<<<" ", "D", "E", "C", "R", "E", "T", "O", " ", "2", "/", "1", "4", "2", "5", " ", ".", ".", "p", "á", "g", ".", "1", "0">>,
                          <<"L", "E", "Y", " ", "9", "/", "1", "4", " ", ".", "p", "á", "g", ".", "1", " ", "P", "r", "i", "m", "e", "r", "a", " ", "S", "e", "c", "c", "i", "ó", "n">>,
                          <<"L", "E", "Y", " ", "7", "/", "3", "4", " ", ".", "p", "á", "g", ".", "2">>>>, <<NL>>)>>
    /\ Len(sumario) = 2
    /\ sumario[1].tipo = "DECRETO" /\ sumario[2].tipo = "LEY"
    /\ sumario[2].pagina = 1
    /\ probadas = <<<<2, 1>>, <<2, 2>>>>

(***************************************************************************)
(* C26: the text that is classified                                        *)
(***************************************************************************)
\* C26: the topics and keywords recorded in the row of a document are those
\* found in the document's block as it stands (its lines joined by
\* newlines): classifying the text handed to _clasificar_documento gives the
\* same list of matches as classifying doc['contenido'].
C26_ClasificaElBloque ==
    \A k \in 1..Len(filas) :
        filas[k].temas_encontrados = clasificar_documento(documentos[k].contenido, temas)

(***************************************************************************)
(* C17: claims on the sinks of _guardar_resultados                         *)
(***************************************************************************)
Intentado(que, c) ==
    \E j \in 1..Len(bitacora) :
        bitacora[j] = [que |-> que, cuenta |-> c, ok |-> <<que, c>> \notin fallas]

\* the filter of account c was attempted, and failed when it was to raise
\* or the name is no pattern
FiltroIntentado(c) ==
    \E j \in 1..Len(bitacora) :
        /\ bitacora[j].que = "filtro" /\ bitacora[j].cuenta = c
        /\ (<<"filtro", c>> \in fallas \/ re_compile(cuentas[c].nombre).e = "error")
              => ~bitacora[j].ok
        /\ (<<"filtro", c>> \notin fallas /\ re_compile(cuentas[c].nombre).e = "")
              => bitacora[j].ok

\* C17: whichever of the TSV, Excel and JSON writes raise, each of the three
\* is attempted, in that order, and a raise is logged and goes no further:
\* the only raise that leaves _guardar_resultados is the one of a frame with
\* no row.  The account reports run afterwards, and once their directory
\* is there, whichever steps of an account's report raise, every account is
\* filtered and, when it has rows, both of its reports are attempted; when
\* the directory cannot be made no account is looked at.
C17_SinksIndependientes ==
    /\ pc = "clas_error" => Len(filas) = 0 /\ bitacora = <<>>
    /\ pc \in {"resumen", "clas_fin"} =>
          /\ Len(bitacora) >= 3
          /\ \A j \in 1..3 :
                /\ bitacora[j].que = <<"tsv", "excel", "json">>[j]
                /\ bitacora[j].cuenta = 0
                /\ bitacora[j].ok = (<<bitacora[j].que, 0>> \notin fallas)
    /\ pc = "resumen" =>
          \A c \in 1..Len(reportes) : FiltroIntentado(c)
    /\ pc = "clas_fin" /\ DirReportes \in fallas =>
          reportes = <<>> /\ Len(bitacora) = 3
    /\ pc = "clas_fin" /\ DirReportes \notin fallas =>
          \A c \in 1..Len(cuentas) :
             /\ FiltroIntentado(c)
             /\ (/\ <<"filtro", c>> \notin fallas
                 /\ re_compile(cuentas[c].nombre).e = ""
                 /\ Len(docs_cuenta(filas, cuentas[c].nombre)) > 0)
                   => Intentado("excel_cuenta", c) /\ Intentado("word_cuenta", c)

\* the three files of the issue and the Excel report of the first account
\* failed to be written, and the Word report of the first account and the
\* Excel report of the second were written
C17_Witness ==
    /\ pc = "clas_fin"
    /\ {<<"tsv", 0>>, <<"excel", 0>>, <<"json", 0>>, <<"excel_cuenta", 1>>} \subseteq fallas
    /\ \E j \in 1..Len(bitacora) :
          bitacora[j] = [que |-> "word_cuenta", cuenta |-> 1, ok |-> TRUE]
    /\ \E j \in 1..Len(bitacora) :
          bitacora[j] = [que |-> "excel_cuenta", cuenta |-> 2, ok |-> TRUE]

(***************************************************************************)
(* procesar_pdf from the open PDF to its return                            *)
(***************************************************************************)
\* the lines the pages of the issue may hold
LINEAS_PDF ==
    {<<"S", "U", "M", "A", "R", "I", "O">>,
     <<"L", "E", "Y", " ", "2", "7", ".", "0", "0", "0">>,
     <<"H", "o", "s", "p", "i", "t", "a", "l", " ", "d", "e", " ", "S", "a", "l", "u", "d">>}

PdfInit ==
    /\ pc = "sum"
    /\ \E ls \in SeqsHasta(LINEAS_PDF, MaxLineas) :
          \E cortes \in SUBSET (1..(Len(ls) - 1)) :
             paginas = Paginar(ls, cortes)
    /\ i = 0
    /\ n_linea = 0
    /\ documento_actual = None
    /\ texto_documento = <<>>
    /\ documentos = <<>>
    /\ en_sumario = FALSE
    /\ n_pag = 1
    /\ sumario = <<>>
    /\ probadas = <<>>
    /\ temas = <<[tema |-> Salud,
                  palabras_clave |-> <<<<"s", "a", "l", "u", "d">>, <<"h", "o", "s", "p", "i", "t", "a", "l">>>>]>>
    /\ cuentas = <<[nombre |-> <<"Y", "P", "F", " ", "L", "u", "z">>,
                    temas |-> <<Salud, Fantasma>>]>>
    /\ filas = <<>>
    /\ reportes = <<>>
    /\ ExtIdle /\ NewsIdle /\ RssIdle /\ LocIdle /\ SinkListo /\ CargaIdle /\ GuiIdle

\* lines 498-505: the summary is stored and the loop over the pages begins
ComenzarSegmentacion ==
    /\ pc = "sum_fin"
    /\ pc' = "seg"
    /\ i' = 1
    /\ n_linea' = 1
    /\ UNCHANGED <<paginas, documento_actual, texto_documento, documentos>>
    /\ UNCHANGED <<extVars, clasVars, newsVars, rssVars, locVars, sumVars, sinkVars, cargaVars,
                   guiVars>>

\* line 541: self._guardar_resultados(metadata)
LlamarGuardar ==
    /\ pc = "seg_fin"
    /\ pc' = "clas"
    /\ UNCHANGED <<segVars, extVars, clasVars, newsVars, rssVars, locVars, sumVars, sinkVars,
                   cargaVars, guiVars>>

\* line 543: return metadata
RetornarMetadata ==
    /\ pc = "clas_fin"
    /\ pc' = "pdf_fin"
    /\ UNCHANGED <<segVars, extVars, clasVars, newsVars, rssVars, locVars, sumVars, sinkVars,
                   cargaVars, guiVars>>

\* lines 794-796 and 545-547: the exception of _guardar_resultados is logged
\* and raised again, procesar_pdf logs it and returns None
RetornarNone ==
    /\ pc = "clas_error"
    /\ pc' = "pdf_none"
    /\ UNCHANGED <<segVars, extVars, clasVars, newsVars, rssVars, locVars, sumVars, sinkVars,
                   cargaVars, guiVars>>

PdfNext ==
    \/ SumNext \/ ComenzarSegmentacion
    \/ SegNext \/ LlamarGuardar
    \/ ClasNext
    \/ RetornarMetadata \/ RetornarNone

SpecPdf == PdfInit /\ [][PdfNext]_vars

\* C27: for a PDF that exists and whose pages all yield text, procesar_pdf
\* returns the record and never None, and the record's documentos are the
\* segmenter's output, one per header line; this includes the issue in
\* which no line is a header, whose list is empty and whose TSV, Excel and
\* JSON files are written all the same, with no rows.
C27_SiempreDevuelveElRegistro ==
    pc \in {"pdf_fin", "pdf_none"} =>
        /\ pc = "pdf_fin"
        /\ Len(documentos) = Len(PosCabeceras(TodasLasLineas))
        /\ Len(filas) = Len(documentos)
        /\ Intentado("tsv", 0) /\ Intentado("excel", 0) /\ Intentado("json", 0)

(***************************************************************************)
(* Loading the taxonomy: _cargar_diccionario / _cargar_cuentas of          *)
(* BoletinPDFProcessor and cargar_diccionario / cargar_cuentas of example  *)
(***************************************************************************)
\* the index in a store of the entry with the key, 0 when there is none
PosClave(claves, clave) ==
    IF \E k \in 1..Len(claves) : claves[k] = clave
    THEN CHOOSE k \in 1..Len(claves) : claves[k] = clave
    ELSE 0

\* boletin_pdf lines 381-393, example lines 33-45: the rows of
\* Diccionario.xlsx, from row k on, added to the store
RECURSIVE TemasDesdeFilas(_, _, _)
TemasDesdeFilas(filas_, k, store) ==
    IF k > Len(filas_) THEN store
    ELSE IF ~filas_[k].tema.some THEN TemasDesdeFilas(filas_, k + 1, store)
    ELSE LET tema == Strip(filas_[k].tema.v)
             p == PosClave(TemasDe(store), tema)
             con == IF p = 0
                    THEN Append(store, [tema |-> tema, palabras_clave |-> <<>>])
                    ELSE store
             q == IF p = 0 THEN Len(con) ELSE p
         IN  TemasDesdeFilas(filas_, k + 1,
                IF filas_[k].palabra.some
                THEN [con EXCEPT ![q].palabras_clave =
                         Append(@, Lower(Strip(filas_[k].palabra.v)))]
                ELSE con)

\* boletin_pdf lines 374-399, example lines 26-50: {} when anything raises
cargar_diccionario(origen) ==
    IF origen.falla THEN <<>> ELSE TemasDesdeFilas(origen.filas, 1, <<>>)

\* boletin_pdf lines 422-426, example lines 337-342: the cells of the topic
\* columns of a row, from column c on, added to the topics of the account
RECURSIVE TemasDeFila(_, _, _)
TemasDeFila(celdas, c, ts) ==
    IF c > Len(celdas) THEN ts
    ELSE TemasDeFila(celdas, c + 1,
            IF celdas[c].some /\ Len(Strip(celdas[c].v)) > 0
                  /\ PosClave(ts, Strip(celdas[c].v)) = 0
            THEN Append(ts, Strip(celdas[c].v)) ELSE ts)

\* boletin_pdf lines 408-430, example lines 319-346: the rows of Cuentas.xlsx
RECURSIVE CuentasDesdeFilas(_, _, _)
CuentasDesdeFilas(filas_, k, store) ==
    IF k > Len(filas_) THEN store
    ELSE IF ~filas_[k].Empresa.some THEN CuentasDesdeFilas(filas_, k + 1, store)
    ELSE LET empresa == Strip(filas_[k].Empresa.v)
             p == PosClave([j \in 1..Len(store) |-> store[j].nombre], empresa)
             con == IF p = 0
                    THEN Append(store, [nombre |-> empresa, temas |-> <<>>])
                    ELSE store
             q == IF p = 0 THEN Len(con) ELSE p
         IN  CuentasDesdeFilas(filas_, k + 1,
                [con EXCEPT ![q].temas = TemasDeFila(filas_[k].temas, 1, @)])

\* boletin_pdf lines 401-436, example lines 291-355: {} when the file is
\* missing or unreadable, or anything else raises
cargar_cuentas(origen) ==
    IF origen.falla THEN <<>> ELSE CuentasDesdeFilas(origen.filas, 1, <<>>)

\* what Diccionario.xlsx may give: unreadable, no row, rows
DICCIONARIOS ==
    {[falla |-> TRUE, filas |-> <<>>],
     [falla |-> FALSE, filas |-> <<>>],
     [falla |-> FALSE,
      filas |-> <<[tema |-> Some(<<" ", "S", "a", "l", "u", "d">>),
                   palabra |-> Some(<<"S", "a", "l", "u", "d", " ">>)],
                  [tema |-> Some(Energia), palabra |-> Some(<<"N", "A", "F", "T", "A">>)],
                  [tema |-> None, palabra |-> Some(<<"x">>)],
                  [tema |-> Some(Salud),
                   palabra |-> Some(<<"h", "o", "s", "p", "i", "t", "a", "l">>)]>>]}

\* what Cuentas.xlsx may give: unreadable, no row, rows
PLANILLAS ==
    {[falla |-> TRUE, filas |-> <<>>],
     [falla |-> FALSE, filas |-> <<>>],
     [falla |-> FALSE,
      filas |-> <<[Empresa |-> Some(<<"Y", "P", "F", " ">>),
                   temas |-> <<Some(Energia), None>>],
                  [Empresa |-> None, temas |-> <<Some(Salud), None>>],
                  [Empresa |-> Some(<<"Y", "P", "F", " ", "L", "u", "z">>),
                   temas |-> <<Some(Salud), Some(Fantasma)>>]>>]}

\* before BoletinPDFProcessor() is built for an issue with documents, or
\* before main of example is called
CargaInit ==
    /\ origen_temas \in DICCIONARIOS
    /\ origen_cuentas \in PLANILLAS
    /\ temas = <<>> /\ cuentas = <<>>
    /\ filas = <<>> /\ reportes = <<>>
    /\ paginas = <<>> /\ i = 0 /\ n_linea = 0
    /\ documento_actual = None /\ texto_documento = <<>>
    /\ \/ /\ pc = "init"
          /\ \E n \in 0..Len(DOCS_SINK) :
                documentos = [k \in 1..n |-> procesar_documento("LEY", DOCS_SINK[k])]
          /\ NewsIdle /\ SinkListo
       \/ /\ pc = "main"
          /\ documentos = <<>>
          /\ SinkIdle
          /\ all_news = <<>>
          /\ feed_pc = [n \in NOMBRES |-> "en_cola"]
          /\ retry_count = [n \in NOMBRES |-> 0]
          /\ intentos = [n \in NOMBRES |-> <<>>]
          /\ espera = [n \in NOMBRES |-> 0]
          /\ resultado = [n \in NOMBRES |-> None]
          /\ n_noticia = 0
          /\ noticias_por_tema = <<>>
          /\ total_noticias_clasificadas = 0
    /\ ExtIdle /\ RssIdle /\ LocIdle /\ SumIdle /\ GuiIdle

\* BoletinPDFProcessor.__init__, lines 352-353; the documents of the issue
\* then reach _guardar_resultados
CargarTaxonomia ==
    /\ pc = "init"
    /\ temas' = cargar_diccionario(origen_temas)
    /\ cuentas' = cargar_cuentas(origen_cuentas)
    /\ pc' = "clas"
    /\ UNCHANGED <<filas, reportes, segVars, extVars, newsVars, rssVars, locVars, sumVars,
                   sinkVars, cargaVars, guiVars>>

\* main of example, lines 442-445: without accounts main returns
CargarCuentasMain ==
    /\ pc = "main"
    /\ cuentas' = cargar_cuentas(origen_cuentas)
    /\ pc' = IF Len(cuentas') = 0 THEN "news_salir" ELSE "main_dic"
    /\ UNCHANGED <<temas, filas, reportes, segVars, extVars, newsVars, rssVars, locVars,
                   sumVars, sinkVars, cargaVars, guiVars>>

\* main of example, lines 456-459: without topics main returns; otherwise
\* lines 530-535 load the news of the sheet and the feeds are fetched
CargarDiccionarioMain ==
    /\ pc = "main_dic"
    /\ temas' = cargar_diccionario(origen_temas)
    /\ IF Len(temas') = 0
       THEN pc' = "news_salir" /\ all_news' = all_news
       ELSE pc' = "feeds" /\ all_news' \in SHEET_NEWS
    /\ UNCHANGED <<cuentas, filas, reportes, feedVars, n_noticia, noticias_por_tema,
                   total_noticias_clasificadas, segVars, extVars, rssVars, locVars,
                   sumVars, sinkVars, cargaVars, guiVars>>

CargaNext ==
    \/ CargarTaxonomia \/ ClasNext
    \/ CargarCuentasMain \/ CargarDiccionarioMain \/ NewsNext

SpecCarga == CargaInit /\ [][CargaNext]_vars

(***************************************************************************)
(* C18: claim on a taxonomy that fails to load                             *)
(***************************************************************************)
\* C18: when the topic dictionary or the account table fails to load, the
\* loader gives an empty store; the pipeline is not stopped, that is, the
\* gazette pipeline raises only for an issue without documents and main of
\* example does not return before its feeds are fetched; and with no topic
\* store no document and no news item is classified.
C18_CargaDegradada ==
    /\ (pc \notin {"init", "main", "main_dic"} /\ origen_temas.falla) => temas = <<>>
    /\ (pc \notin {"init", "main"} /\ origen_cuentas.falla) => cuentas = <<>>
    /\ pc = "clas_error" => Len(documentos) = 0
    /\ pc = "news_salir" =>
          ~(origen_cuentas.falla \/ (Len(cuentas) > 0 /\ origen_temas.falla))
    /\ (pc = "clas_fin" /\ origen_temas.falla) =>
          \A d \in 1..Len(filas) :
             filas[d].temas_encontrados = <<>> /\ filas[d].lista_cuentas = <<>>
    /\ (pc = "news_fin" /\ origen_temas.falla) => total_noticias_clasificadas = 0

(***************************************************************************)
(* C19: account matching is monotonic                                      *)
(***************************************************************************)
\* the topics that may be added to an account
TEMAS_A_AGREGAR == {Salud, Energia, Vacio, Fantasma}

\* self.cuentas with topic t added to the temas of the account at position a
ConTema(a, t) == [cuentas EXCEPT ![a].temas = Append(@, t)]

Nombres(lista) == {lista[k] : k \in 1..Len(lista)}

\* C19: for every document classified and every account, whichever topic is
\* added to the account's temas, _encontrar_cuentas_interesadas still returns
\* the account for the document if it did before, and returns each other
\* account exactly when it did before.
C19_Monotona ==
    \A d \in 1..Len(filas) : \A a \in 1..Len(cuentas) : \A t \in TEMAS_A_AGREGAR :
        \A lista \in encontrar_cuentas_interesadas(filas[d].temas_encontrados, ConTema(a, t)) :
            /\ cuentas[a].nombre \in Nombres(filas[d].lista_cuentas)
                  => cuentas[a].nombre \in Nombres(lista)
            /\ \A b \in 1..Len(cuentas) :
                  b # a => (cuentas[b].nombre \in Nombres(filas[d].lista_cuentas)
                               <=> cuentas[b].nombre \in Nombres(lista))

\* a document matched by the second account and not by the first, which the
\* first account matches once a topic is added to it
C19_Witness ==
    /\ pc = "clas_fin"
    /\ Len(cuentas) = 2
    /\ \E d \in 1..Len(filas) : \E t \in TEMAS_A_AGREGAR :
          /\ Nombres(filas[d].lista_cuentas) = {cuentas[2].nombre}
          /\ \A lista \in encontrar_cuentas_interesadas(filas[d].temas_encontrados,
                                                        ConTema(1, t)) :
                Nombres(lista) = {cuentas[1].nombre, cuentas[2].nombre}

(***************************************************************************)
(* C20: the classification does not depend on the order of completion      *)
(***************************************************************************)
\* the results of the feeds in the order of the feeds dict, from the k-th on
RECURSIVE EnOrdenDeFeeds(_)
EnOrdenDeFeeds(k) ==
    IF k > Len(FEEDS) THEN <<>>
    ELSE ConFeedName(resultado[FEEDS[k].name].v.entries, FEEDS[k].name)
         \o EnOrdenDeFeeds(k + 1)

\* the items to classify, fixed by the sheet and by what each feed returned
\* and by nothing else: the items of the sheet, then those of each feed
ItemsDeLosResultados == NoticiasDe("whatsapp_group") \o EnOrdenDeFeeds(1)

\* an item after its turn of the classification loop
Clasificada(noticia) == Anotar(noticia, clasificar_noticia(noticia, temas))

Veces(x, sq) == Cardinality({k \in 1..Len(sq) : sq[k] = x})

\* the items under a topic: as the results fix them, and as main grouped them
EsperadasDe(tema) ==
    LET bajo == SelectSeq(ItemsDeLosResultados,
                          LAMBDA n : \E m \in 1..Len(clasificar_noticia(n, temas)) :
                                        clasificar_noticia(n, temas)[m].tema = tema)
    IN  [k \in 1..Len(bajo) |-> Clasificada(bajo[k])]
AgrupadasDe(tema) ==
    IF \E g \in 1..Len(noticias_por_tema) : noticias_por_tema[g].tema = tema
    THEN LET g == CHOOSE g \in 1..Len(noticias_por_tema) : noticias_por_tema[g].tema = tema
         IN  [k \in 1..Len(noticias_por_tema[g].noticias) |->
                 all_news[noticias_por_tema[g].noticias[k]]]
    ELSE <<>>

RECURSIVE TotalDesde(_, _)
TotalDesde(items, k) ==
    IF k > Len(items) THEN 0
    ELSE Len(clasificar_noticia(items[k], temas)) + TotalDesde(items, k + 1)

\* C20: when the classification is over, the items under each topic, each
\* with its keyword, are as a multiset those fixed by the results of the
\* feeds, and so is total_noticias_clasificadas, in whatever order the
\* futures were handed over: two runs with the same results end alike.
C20_SinOrden ==
    pc = "news_fin" =>
        /\ \A g \in 1..Len(noticias_por_tema) :
              \E k \in 1..Len(temas) : temas[k].tema = noticias_por_tema[g].tema
        /\ \A k \in 1..Len(temas) :
              LET esperadas == EsperadasDe(temas[k].tema)
                  agrupadas == AgrupadasDe(temas[k].tema)
              IN  /\ Len(agrupadas) = Len(esperadas)
                  /\ \A j \in 1..Len(esperadas) :
                        Veces(esperadas[j], agrupadas) = Veces(esperadas[j], esperadas)
        /\ total_noticias_clasificadas = TotalDesde(ItemsDeLosResultados, 1)

\* infobae and clarin both brought an item that was classified, and the item
\* of clarin was collected before the one of infobae
C20_Witness ==
    /\ pc = "news_fin"
    /\ \E a, b \in 1..Len(all_news) :
          /\ a < b
          /\ all_news[a].feed_name = "clarin" /\ all_news[b].feed_name = "infobae"
          /\ all_news[a].palabra_encontrada.some /\ all_news[b].palabra_encontrada.some

(***************************************************************************)
(* gui.py, NewsAnalyzerGUI.process_news: the button, the worker thread and *)
(* the callbacks it hands to root.after                                    *)
(***************************************************************************)

MaxCorridas == 3

\* str(e) of the exceptions the pipeline function raises
MENSAJES == {"sin red", "sin hoja"}

\* log, lines 121-125: one message of the log area (the time stamp left out)
Registro(texto, detalle) == [texto |-> texto, detalle |-> detalle]

\* lines 127-131 with a handler that leaves the button as it is
Click_sin_deshabilitar ==
    /\ pc = "gui"
    /\ "disabled" \notin process_button
    /\ Len(hilos) < MaxCorridas
    /\ status_label' = "Procesando noticias..."
    /\ log_text' = Append(log_text, Registro("Iniciando procesamiento de noticias...", ""))
    /\ hilos' = Append(hilos, [pos |-> "process_news", e |-> None])
    /\ UNCHANGED <<pc, process_button, after_queue, segVars, extVars, clasVars, newsVars, rssVars,
                   locVars, sumVars, sinkVars, cargaVars>>

\* __init__, lines 9-119: the window as built, the button enabled, the
\* status "Listo", no thread started
GuiInit ==
    /\ pc = "gui"
    /\ GuiIdle
    /\ SegIdle /\ ExtIdle /\ ClasIdle /\ NewsIdle /\ RssIdle /\ LocIdle /\ SumIdle /\ SinkIdle /\ CargaIdle

\* process_news, lines 127-142: the command of the button, which Tk runs
\* only while the button is not disabled; the thread it starts is in the
\* pipeline function
Click ==
    /\ pc = "gui"
    /\ "disabled" \notin process_button
    /\ Len(hilos) < MaxCorridas
    /\ process_button' = process_button \cup {"disabled"}
    /\ status_label' = "Procesando noticias..."
    /\ log_text' = Append(log_text, Registro("Iniciando procesamiento de noticias...", ""))
    /\ hilos' = Append(hilos, [pos |-> "process_news", e |-> None])
    /\ UNCHANGED <<pc, after_queue, segVars, extVars, clasVars, newsVars, rssVars,
                   locVars, sumVars, sinkVars, cargaVars>>

\* process, lines 134-136: the pipeline function returns in thread k, which
\* schedules process_completed
RetornarPipeline(k) ==
    /\ pc = "gui"
    /\ k \in 1..Len(hilos)
    /\ hilos[k].pos = "process_news"
    /\ hilos' = [hilos EXCEPT ![k].pos = "tras_after"]
    /\ after_queue' = Append(after_queue, [fn |-> "process_completed", hilo |-> k])
    /\ UNCHANGED <<pc, process_button, status_label, log_text, segVars, extVars, clasVars, newsVars,
                   rssVars, locVars, sumVars, sinkVars, cargaVars>>

\* process, lines 135-138: the pipeline function raises an Exception in
\* thread k; the except clause binds it to e and schedules the lambda, which
\* refers to e of this call of process
LanzarPipeline(k) ==
    /\ pc = "gui"
    /\ k \in 1..Len(hilos)
    /\ hilos[k].pos = "process_news"
    /\ \E m \in MENSAJES :
          hilos' = [hilos EXCEPT ![k] = [pos |-> "except", e |-> Some(m)]]
    /\ after_queue' = Append(after_queue, [fn |-> "lambda", hilo |-> k])
    /\ UNCHANGED <<pc, process_button, status_label, log_text, segVars, extVars, clasVars, newsVars,
                   rssVars, locVars, sumVars, sinkVars, cargaVars>>

\* process, line 138 to its end: thread k leaves the except clause, which
\* unbinds e, or returns after line 136; the thread ends
TerminarHilo(k) ==
    /\ pc = "gui"
    /\ k \in 1..Len(hilos)
    /\ hilos[k].pos \in {"except", "tras_after"}
    /\ hilos' = [hilos EXCEPT ![k] = [pos |-> "fin", e |-> None]]
    /\ UNCHANGED <<pc, process_button, status_label, log_text, after_queue, segVars, extVars, clasVars,
                   newsVars, rssVars, locVars, sumVars, sinkVars, cargaVars>>

\* process_completed, lines 144-149
process_completed ==
    /\ process_button' = process_button \ {"disabled"}
    /\ status_label' = "Procesamiento completado"
    /\ log_text' = Append(log_text, Registro("Procesamiento de noticias completado exitosamente", ""))

\* process_error, lines 151-157
process_error(error_message) ==
    /\ process_button' = process_button \ {"disabled"}
    /\ status_label' = "Error en el procesamiento"
    /\ log_text' = Append(log_text, Registro("Error: ", error_message))

\* the Tk main loop runs the oldest scheduled callback.  The lambda of line
\* 138 reads e when it is called: with e still bound it calls process_error,
\* with e unbound the read raises NameError and nothing of the window changes
EjecutarCallback ==
    /\ pc = "gui"
    /\ after_queue # <<>>
    /\ LET cb == Head(after_queue)
       IN  IF cb.fn = "process_completed"
           THEN process_completed
           ELSE IF hilos[cb.hilo].e.some
                THEN process_error(hilos[cb.hilo].e.v)
                ELSE UNCHANGED <<process_button, status_label, log_text>>
    /\ after_queue' = Tail(after_queue)
    /\ UNCHANGED <<pc, hilos, segVars, extVars, clasVars, newsVars, rssVars,
                   locVars, sumVars, sinkVars, cargaVars>>

PasoDeHilo == \E k \in 1..MaxCorridas : RetornarPipeline(k) \/ LanzarPipeline(k) \/ TerminarHilo(k)

GuiNext == Click \/ PasoDeHilo \/ EjecutarCallback

\* the threads and the main loop keep running; nobody has to click
SpecGui == GuiInit /\ [][GuiNext]_vars /\ WF_vars(PasoDeHilo) /\ WF_vars(EjecutarCallback)

\* the reports of finished runs in the log, oldest first
Informes == SelectSeq(log_text, LAMBDA r : r.texto # "Iniciando procesamiento de noticias...")

\* the pipeline function has ended in thread k
PipelineTerminado(k) == k <= Len(hilos) /\ hilos[k].pos # "process_news"

\* run k has been reported: runs follow one another, so its report is the
\* k-th one
Informada(k) == Len(Informes) >= k

\* C29: every run whose pipeline function has ended, by returning or by
\* raising, is eventually reported by its callback on the GUI thread, with
\* the button enabled again.
C29_SiempreInformada ==
    \A k \in 1..MaxCorridas :
        (PipelineTerminado(k) /\ ~Informada(k))
            ~> (Informada(k) /\ "disabled" \notin process_button)

\* run k has been started and its callback has not been executed
EnCurso(k) ==
    \/ hilos[k].pos = "process_news"
    \/ \E j \in 1..Len(after_queue) : after_queue[j].hilo = k

Corriendo_gui == {k \in 1..Len(hilos) : EnCurso(k)}

\* C30: at most one run is in progress at any time; the button is disabled
\* from the start of a run until its callback has been executed, and no
\* thread is started while a run is in progress.
C30_UnaCorridaALaVez ==
    /\ [](Cardinality(Corriendo_gui) <= 1)
    /\ [](Corriendo_gui # {} => "disabled" \in process_button)
    /\ [](Cardinality({k \in 1..Len(hilos) : hilos[k].pos = "process_news"}) <= 1)
    /\ [][Len(hilos') > Len(hilos) => Corriendo_gui = {} /\ Corriendo_gui' = {Len(hilos')}]_vars

\* the second run is in its pipeline function, after the first one failed
\* and was reported
C30_Witness ==
    /\ pc = "gui"
    /\ Len(hilos) = 2
    /\ hilos[2].pos = "process_news"
    /\ Len(Informes) = 1
    /\ Informes[1].texto = "Error: "
    /\ "disabled" \in process_button

=============================================================================
